---- MODULE Spec2Model ----
(***************************************************************************)
(* Unit-validation gate and knowledge-graph builder of the language-tutor  *)
(* backend (backend/routes/conversation.py, backend/routes/graph.py).      *)
(*                                                                         *)
(* A text is a sequence of one-character strings, so that normalisation,   *)
(* tokenisation, substring tests and prefix tests are computed character   *)
(* by character as the Python code computes them.  Str(t) is the string    *)
(* spelled by the text t; it is used for dictionary keys and set members.  *)
(* A float is a rational [num, den] with den > 0.                          *)
(***************************************************************************)
EXTENDS Integers, Sequences, FiniteSets, TLC

\* ------------------------------------------------------------------------
\* Bounds of the model
\* ------------------------------------------------------------------------
MaxTurns == 2

\* ------------------------------------------------------------------------
\* Rational arithmetic (Python floats, computed exactly)
\* ------------------------------------------------------------------------
RECURSIVE Gcd(_, _)
Gcd(a, b) == IF b = 0 THEN a ELSE Gcd(b, a % b)

Abs(n) == IF n < 0 THEN -n ELSE n

R(n, d) ==
  LET g == Gcd(Abs(n), d) IN [num |-> n \div g, den |-> d \div g]

RAdd(a, b) == R(a.num * b.den + b.num * a.den, a.den * b.den)
RSub(a, b) == R(a.num * b.den - b.num * a.den, a.den * b.den)
RMul(a, b) == R(a.num * b.num, a.den * b.den)
RLt(a, b) == a.num * b.den < b.num * a.den
RLe(a, b) == a.num * b.den <= b.num * a.den
REq(a, b) == a.num * b.den = b.num * a.den
\* Python's max(a, b) returns a unless b > a; min(a, b) returns a unless b < a.
RMax(a, b) == IF RLt(a, b) THEN b ELSE a
RMin(a, b) == IF RLt(b, a) THEN b ELSE a
Pct(n) == R(n, 100)

SeqMax(a, b) == IF b > a THEN b ELSE a
SeqMin(a, b) == IF b < a THEN b ELSE a

\* a dictionary is the sequence of its (key, value) pairs in insertion order
HasKey(dict, key) == \E k \in 1..Len(dict) : dict[k].key = key
Get(dict, key) == dict[CHOOSE k \in 1..Len(dict) : dict[k].key = key].value
\* dict[key] = value
Put(dict, key, value) ==
  IF HasKey(dict, key)
  THEN [k \in 1..Len(dict) |-> IF dict[k].key = key THEN [key |-> key, value |-> value]
                                ELSE dict[k]]
  ELSE Append(dict, [key |-> key, value |-> value])

\* ------------------------------------------------------------------------
\* Characters
\* ------------------------------------------------------------------------
UpperLetters ==
  <<"A","B","C","D","E","F","G","H","I","J","K","L","M",
    "N","O","P","Q","R","S","T","U","V","W","X","Y","Z">>
LowerLetters ==
  <<"a","b","c","d","e","f","g","h","i","j","k","l","m",
    "n","o","p","q","r","s","t","u","v","w","x","y","z">>
AccentLetters == {"à","â","ä","é","è","ê","ë","ï","î","ô","ù","û","ü","ÿ","ç"}
Digits == {"0","1","2","3","4","5","6","7","8","9"}
AsciiLetters ==
  {UpperLetters[i] : i \in 1..26} \cup {LowerLetters[i] : i \in 1..26}
\* str.split() with no argument splits on these
Whitespace == {" ", "\t", "\n"}
\* the class \w of the re module
WordChars == AsciiLetters \cup AccentLetters \cup Digits \cup {"_"}
\* the first alternative of the token regex of _extract_user_vocabulary
LatinLetters == AsciiLetters \cup AccentLetters

\* U+2019 RIGHT SINGLE QUOTATION MARK, one character of a text
RightSingleQuote == "U+2019"

\* str.lower() on one character
LowerChar(c) ==
  IF \E i \in 1..26 : UpperLetters[i] = c
  THEN LowerLetters[CHOOSE i \in 1..26 : UpperLetters[i] = c]
  ELSE c

\* ------------------------------------------------------------------------
\* Texts (sequences of characters)
\* ------------------------------------------------------------------------
\* Recursions over the characters of a text split the text in halves.
RECURSIVE Str(_)
Str(t) ==
  IF Len(t) = 0 THEN ""
  ELSE IF Len(t) = 1 THEN t[1]
  ELSE Str(SubSeq(t, 1, Len(t) \div 2)) \o Str(SubSeq(t, (Len(t) \div 2) + 1, Len(t)))

StartsWithAt(t, p, i) ==
  /\ i + Len(p) - 1 <= Len(t)
  /\ \A k \in 1..Len(p) : t[i + k - 1] = p[k]

\* str.startswith
StartsWith(t, p) == StartsWithAt(t, p, 1)

\* the Python operator "p in t" on strings
Contains(t, p) == \E i \in 1..(Len(t) - Len(p) + 1) : StartsWithAt(t, p, i)

\* the maximal runs of characters of the set cs, from left to right
Runs(t, cs) ==
  LET starts == {i \in 1..Len(t) : t[i] \in cs /\ (i = 1 \/ t[i - 1] \notin cs)}
      EndOf(b) == CHOOSE e \in b..Len(t) :
                    /\ \A m \in b..e : t[m] \in cs
                    /\ e = Len(t) \/ t[e + 1] \notin cs
      Start(k) == CHOOSE b \in starts : Cardinality({x \in starts : x < b}) = k - 1
  IN [k \in 1..Cardinality(starts) |-> SubSeq(t, Start(k), EndOf(Start(k)))]

CharsOf(t) == {t[i] : i \in 1..Len(t)}

\* str.split(): the maximal runs of non-whitespace characters
Split(t) == Runs(t, CharsOf(t) \ Whitespace)

\* sep.join(words)
RECURSIVE Join(_, _)
Join(ws, sep) ==
  IF Len(ws) = 0 THEN <<>>
  ELSE IF Len(ws) = 1 THEN ws[1]
  ELSE Join(SubSeq(ws, 1, Len(ws) \div 2), sep) \o sep
       \o Join(SubSeq(ws, (Len(ws) \div 2) + 1, Len(ws)), sep)

\* str.strip()
Strip(t) ==
  LET kept == {i \in 1..Len(t) : t[i] \notin Whitespace}
  IN IF kept = {} THEN <<>>
     ELSE SubSeq(t, CHOOSE i \in kept : \A j \in kept : i <= j,
                    CHOOSE i \in kept : \A j \in kept : i >= j)

Lower(t) == [i \in 1..Len(t) |-> LowerChar(t[i])]

\* str.replace of one character by a text
RECURSIVE ReplaceChar(_, _, _)
ReplaceChar(t, c, by) ==
  IF Len(t) = 0 THEN <<>>
  ELSE IF Len(t) = 1 THEN (IF t[1] = c THEN by ELSE t)
  ELSE ReplaceChar(SubSeq(t, 1, Len(t) \div 2), c, by)
       \o ReplaceChar(SubSeq(t, (Len(t) \div 2) + 1, Len(t)), c, by)

\* _normalize_text that replaces each pair of spaces by one space, once
RECURSIVE ReplacePairs(_)
ReplacePairs(t) ==
  IF Len(t) < 2 THEN t
  ELSE IF t[1] = " " /\ t[2] = " " THEN <<" ">> \o ReplacePairs(SubSeq(t, 3, Len(t)))
  ELSE <<t[1]>> \o ReplacePairs(Tail(t))

normalize_textPairsOnce(value) ==
  ReplacePairs(ReplaceChar(Lower(value), RightSingleQuote, <<"'">>))

\* normalize_text without str.lower
normalize_textNoLower(value) ==
  Join(Split(ReplaceChar(Strip(value), RightSingleQuote, <<"'">>)), <<" ">>)

\* conversation.py: _normalize_text
normalize_text(value) ==
  Join(Split(ReplaceChar(Lower(Strip(value)), RightSingleQuote, <<"'">>)), <<" ">>)

\* conversation.py: _contains_space
contains_space(value) ==
  LET n == normalize_text(value) IN \E i \in 1..Len(n) : n[i] = " "

\* conversation.py: _tokenize; re.findall(r"\w+", t) is the runs of word characters
tokenize(value) == Runs(normalize_text(value), WordChars)

\* set(_tokenize(text)), as a set of strings
TokenSet(value) ==
  LET toks == tokenize(value) IN {Str(toks[i]) : i \in 1..Len(toks)}


\* ------------------------------------------------------------------------
\* conversation.py: lookup tables
\* ------------------------------------------------------------------------
\* _STOP_WORDS (entries written in scripts outside the alphabet of this
\* model cannot be spelled by a text of the model and are not listed)
STOP_WORDS ==
  {"euh", "um", "uh", "ah", "oh", "hm", "hmm", "ben", "bah", "hein",
   "i", "me", "my", "you", "your", "he", "she", "it", "we", "they",
   "the", "a", "an", "is", "am", "are", "was", "were", "be", "been",
   "do", "does", "did", "have", "has", "had", "and", "or", "but", "not",
   "yes", "no", "so", "if", "in", "on", "at", "to", "of", "for",
   "je", "tu", "il", "elle", "nous", "vous", "ils", "elles",
   "le", "la", "les", "un", "une", "des", "du", "de", "d",
   "à", "au", "aux", "en", "et", "ou", "mais", "donc", "car",
   "que", "qui", "ne", "pas", "est", "ont", "sont", "c",
   "ce", "se", "y", "l", "s", "n", "oui", "non", "très",
   "suis", "es", "sommes", "avons", "avez", "fait", "ca", "ça",
   "yo", "tú", "él", "ella", "usted", "nosotros", "ellos", "ellas",
   "el", "lo", "las", "los", "son", "sí", "por", "con", "para",
   "ich", "er", "sie", "wir", "ihr", "das", "der", "die",
   "ist", "bin", "sind", "und", "oder", "aber", "nicht", "ja", "nein",
   "ein", "eine", "den", "dem",
   "io", "lui", "lei", "noi", "voi", "loro", "è", "sono", "sì", "di", "che", "per",
   "eu", "ele", "ela", "nós", "eles", "elas", "é", "são", "sim", "não", "com"}

\* pattern_map of _canonicalize_candidates, in dictionary order
pattern_map ==
  << [prefix |-> <<"j","e"," ","s","u","i","s"," ">>, pkey |-> <<"p","a","t","t","e","r","n",":","i","d","e","n","t","i","t","y","_","j","e","_","s","u","i","s","_","n","o","u","n">>,
      ptext |-> <<"j","e"," ","s","u","i","s"," ","+"," ","[","n","o","u","n","]">>],
     [prefix |-> <<"j","'","a","i","m","e"," ">>, pkey |-> <<"p","a","t","t","e","r","n",":","p","r","e","f","e","r","e","n","c","e","_","j","a","i","m","e","_","o","b","j","e","c","t">>,
      ptext |-> <<"j","'","a","i","m","e"," ","+"," ","[","o","b","j","e","c","t","]">>],
     [prefix |-> <<"m","e"," ","l","l","a","m","o"," ">>, pkey |-> <<"p","a","t","t","e","r","n",":","i","d","e","n","t","i","t","y","_","m","e","_","l","l","a","m","o">>,
      ptext |-> <<"m","e"," ","l","l","a","m","o"," ","+"," ","[","n","a","m","e","]">>],
     [prefix |-> <<"m","e"," ","g","u","s","t","a"," ">>, pkey |-> <<"p","a","t","t","e","r","n",":","p","r","e","f","e","r","e","n","c","e","_","m","e","_","g","u","s","t","a">>,
      ptext |-> <<"m","e"," ","g","u","s","t","a"," ","+"," ","[","o","b","j","e","c","t","]">>],
     [prefix |-> <<"i","c","h"," ","b","i","n"," ">>, pkey |-> <<"p","a","t","t","e","r","n",":","i","d","e","n","t","i","t","y","_","i","c","h","_","b","i","n">>,
      ptext |-> <<"i","c","h"," ","b","i","n"," ","+"," ","[","n","o","u","n","/","a","d","j","]">>],
     [prefix |-> <<"i","c","h"," ","m","a","g"," ">>, pkey |-> <<"p","a","t","t","e","r","n",":","p","r","e","f","e","r","e","n","c","e","_","i","c","h","_","m","a","g">>,
      ptext |-> <<"i","c","h"," ","m","a","g"," ","+"," ","[","o","b","j","e","c","t","]">>] >>

\* _INCOMPLETE_PATTERNS of _strict_validate_units
INCOMPLETE_PATTERNS ==
  {"je suis", "j'aime", "j'ai envie de", "jai envie de",
   "me llamo", "me gusta", "ich bin", "ich mag", "io sono", "mi piace"}

\* rank of _canonicalize_candidates, read with rank.get(kind, 0)
KindRank(kind) ==
  CASE kind = "pattern" -> 4
    [] kind = "sentence" -> 3
    [] kind = "chunk" -> 2
    [] kind = "word" -> 1
    [] OTHER -> 0

\* ------------------------------------------------------------------------
\* conversation.py: _extract_user_vocabulary
\* ------------------------------------------------------------------------
\* re.findall of letters+(?:'letters+)? over the text: a run of letters takes the
\* next run with it when exactly one apostrophe separates the two
RECURSIVE LatinTokens(_, _, _)
LatinTokens(t, starts, acc) ==
  IF starts = {} THEN acc
  ELSE LET b == CHOOSE x \in starts : \A y \in starts : x <= y
           RunEnd(x) == CHOOSE e \in x..Len(t) :
                          /\ \A m \in x..e : t[m] \in LatinLetters
                          /\ e = Len(t) \/ t[e + 1] \notin LatinLetters
           e1 == RunEnd(b)
           e2 == IF e1 + 2 <= Len(t) /\ t[e1 + 1] = "'" /\ t[e1 + 2] \in LatinLetters
                 THEN RunEnd(e1 + 2) ELSE e1
       IN LatinTokens(t, {x \in starts : x > e2}, Append(acc, SubSeq(t, b, e2)))

LetterRunStarts(t) ==
  {i \in 1..Len(t) : t[i] \in LatinLetters /\ (i = 1 \/ t[i - 1] \notin LatinLetters)}

KeepVocabularyToken(token) ==
  ~(Str(Lower(token)) \in STOP_WORDS \/ Len(token) < 2)

extract_user_vocabulary(user_text) ==
  LET text == Strip(user_text)
      result == SelectSeq(LatinTokens(text, LetterRunStarts(text), <<>>), KeepVocabularyToken)
  IN IF text = <<>> THEN <<>>
     ELSE IF result = <<>> THEN <<text>>
     ELSE result

\* ------------------------------------------------------------------------
\* conversation.py: _extract_pattern_candidates
\* ------------------------------------------------------------------------
\* \b in front of a word character at position i
BoundaryBefore(t, i) == i = 1 \/ t[i - 1] \notin WordChars
\* \b behind a word character at position i
BoundaryAfter(t, i) == i = Len(t) \/ t[i + 1] \notin WordChars

\* \s+ from position j, followed by a character of the set next
WsThen(t, j, next) ==
  \E k \in 1..Len(t) :
     /\ j + k <= Len(t)
     /\ \A m \in j..(j + k - 1) : t[m] \in Whitespace
     /\ t[j + k] \in next

\* re.search(r"\b<stem>\s+\w+", t)
SearchStemWord(t, stem) ==
  \E i \in 1..Len(t) :
     /\ StartsWithAt(t, stem, i)
     /\ BoundaryBefore(t, i)
     /\ WsThen(t, i + Len(stem), WordChars)

\* re.search(r"\b<stem>\s+.+", t): "." is any character but a newline
SearchStemAny(t, stem) ==
  \E i \in 1..Len(t) :
     /\ StartsWithAt(t, stem, i)
     /\ BoundaryBefore(t, i)
     /\ WsThen(t, i + Len(stem), {t[m] : m \in 1..Len(t)} \ {"\n"})

\* re.search(r"\b<phrase>\b", t)
SearchWholePhrase(t, phrase) ==
  \E i \in 1..Len(t) :
     /\ StartsWithAt(t, phrase, i)
     /\ BoundaryBefore(t, i)
     /\ BoundaryAfter(t, i + Len(phrase) - 1)

PatternCandidate(text, key) ==
  [text |-> text, kind |-> "pattern", source |-> "corrected", canonical_key |-> key]

extract_pattern_candidates(corrected_text) ==
     (IF SearchStemWord(corrected_text, <<"j","e"," ","s","u","i","s">>)
      THEN <<PatternCandidate(<<"j","e"," ","s","u","i","s"," ","+"," ","[","n","o","u","n","]">>, <<"p","a","t","t","e","r","n",":","i","d","e","n","t","i","t","y","_","j","e","_","s","u","i","s","_","n","o","u","n">>)>>
      ELSE <<>>)
  \o (IF SearchStemAny(corrected_text, <<"j","'","a","i","m","e">>)
      THEN <<PatternCandidate(<<"j","'","a","i","m","e"," ","+"," ","[","o","b","j","e","c","t","]">>, <<"p","a","t","t","e","r","n",":","p","r","e","f","e","r","e","n","c","e","_","j","a","i","m","e","_","o","b","j","e","c","t">>)>>
      ELSE <<>>)
  \o (IF SearchWholePhrase(corrected_text, <<"ç","a"," ","v","a">>)
         \/ SearchWholePhrase(corrected_text, <<"c","a"," ","v","a">>)
      THEN <<PatternCandidate(<<"ç","a"," ","v","a">>, <<"p","a","t","t","e","r","n",":","g","r","e","e","t","i","n","g","_","c","a","_","v","a">>)>>
      ELSE <<>>)
  \o (IF SearchStemWord(corrected_text, <<"m","e"," ","l","l","a","m","o">>)
      THEN <<PatternCandidate(<<"m","e"," ","l","l","a","m","o"," ","+"," ","[","n","a","m","e","]">>, <<"p","a","t","t","e","r","n",":","i","d","e","n","t","i","t","y","_","m","e","_","l","l","a","m","o">>)>>
      ELSE <<>>)
  \o (IF SearchStemAny(corrected_text, <<"m","e"," ","g","u","s","t","a">>)
      THEN <<PatternCandidate(<<"m","e"," ","g","u","s","t","a"," ","+"," ","[","o","b","j","e","c","t","]">>, <<"p","a","t","t","e","r","n",":","p","r","e","f","e","r","e","n","c","e","_","m","e","_","g","u","s","t","a">>)>>
      ELSE <<>>)
  \o (IF SearchStemWord(corrected_text, <<"i","c","h"," ","b","i","n">>)
      THEN <<PatternCandidate(<<"i","c","h"," ","b","i","n"," ","+"," ","[","n","o","u","n","/","a","d","j","]">>, <<"p","a","t","t","e","r","n",":","i","d","e","n","t","i","t","y","_","i","c","h","_","b","i","n">>)>>
      ELSE <<>>)

\* conversation.py: _mission_keywords
mission_keywords(mission_hint) ==
  LET words == tokenize(mission_hint)
  IN {Str(words[i]) : i \in
        {j \in 1..Len(words) : Len(words[j]) >= 4 /\ Str(words[j]) \notin STOP_WORDS}}

\* ------------------------------------------------------------------------
\* conversation.py: _canonicalize_candidates
\* ------------------------------------------------------------------------
ItemKeys(items) == {items[i].canonical_key : i \in 1..Len(items)}

\* ClassifyKind with a sentence of more than ten tokens
ClassifyKindLongSentence(text) ==
  IF contains_space(text) /\ Len(tokenize(text)) > 10 THEN "sentence"
  ELSE IF contains_space(text) THEN "chunk"
  ELSE "word"

\* kind of a normalised raw candidate, before pattern promotion
ClassifyKind(text) ==
  IF contains_space(text) /\ Len(tokenize(text)) >= 3 THEN "sentence"
  ELSE IF contains_space(text) THEN "chunk"
  ELSE "word"

\* the first entry of pattern_map whose prefix starts the text, or 0
MatchedPattern(text) ==
  IF \E k \in 1..Len(pattern_map) : StartsWith(text, pattern_map[k].prefix)
  THEN CHOOSE k \in 1..Len(pattern_map) :
         /\ StartsWith(text, pattern_map[k].prefix)
         /\ \A m \in 1..(k - 1) : ~StartsWith(text, pattern_map[m].prefix)
  ELSE 0

SourceOf(text, source_text) ==
  IF Contains(source_text, text) THEN "as_said" ELSE "corrected"

\* the kind as it is formatted into f"{kind}:{text}"
KindText(kind) ==
  CASE kind = "sentence" -> <<"s","e","n","t","e","n","c","e">>
    [] kind = "chunk" -> <<"c","h","u","n","k">>
    [] kind = "word" -> <<"w","o","r","d">>

\* the item appended for one normalised raw candidate
RawItem(text, source_text) ==
  LET kind == ClassifyKind(text)
      m == MatchedPattern(text)
  IN IF m # 0
     THEN [text |-> pattern_map[m].ptext, kind |-> "pattern",
           source |-> SourceOf(pattern_map[m].ptext, source_text),
           canonical_key |-> pattern_map[m].pkey]
     ELSE IF text \in {<<"c","a"," ","v","a">>, <<"ç","a"," ","v","a">>}
     THEN [text |-> <<"ç","a"," ","v","a">>, kind |-> "pattern",
           source |-> SourceOf(<<"ç","a"," ","v","a">>, source_text),
           canonical_key |-> <<"p","a","t","t","e","r","n",":","g","r","e","e","t","i","n","g","_","c","a","_","v","a">>]
     ELSE [text |-> text, kind |-> kind,
           source |-> SourceOf(text, source_text),
           canonical_key |-> KindText(kind) \o <<":">> \o text]

\* the loop over raw_units, with the first candidate of the list taken as the
\* sentence when it is a phrase
RECURSIVE RawItemsFirstIsSentence(_, _, _, _, _)
RawItemsFirstIsSentence(raw_units, i, seen_norm, items, source_text) ==
  IF i > Len(raw_units) THEN items
  ELSE LET text == normalize_text(raw_units[i])
           item == RawItem(text, source_text)
           first == IF i = 1 /\ item.kind = "chunk"
                    THEN [item EXCEPT !.kind = "sentence",
                                      !.canonical_key = KindText("sentence") \o <<":">> \o text]
                    ELSE item
       IN IF text = <<>> \/ Str(text) \in seen_norm
          THEN RawItemsFirstIsSentence(raw_units, i + 1, seen_norm, items, source_text)
          ELSE RawItemsFirstIsSentence(raw_units, i + 1, seen_norm \cup {Str(text)},
                                       Append(items, first), source_text)

\* the loop over raw_units
RECURSIVE RawItems(_, _, _, _, _)
RawItems(raw_units, i, seen_norm, items, source_text) ==
  IF i > Len(raw_units) THEN items
  ELSE LET text == normalize_text(raw_units[i])
       IN IF text = <<>> \/ Str(text) \in seen_norm
          THEN RawItems(raw_units, i + 1, seen_norm, items, source_text)
          ELSE RawItems(raw_units, i + 1, seen_norm \cup {Str(text)},
                        Append(items, RawItem(text, source_text)), source_text)

\* the word fallbacks taken from the tokens of the corrected text
RECURSIVE WordFallbacks(_, _, _)
WordFallbacks(toks, i, items) ==
  IF i > Len(toks) THEN items
  ELSE IF Str(toks[i]) \in STOP_WORDS \/ Len(toks[i]) <= 1
          \/ (<<"w","o","r","d",":">> \o toks[i]) \in ItemKeys(items)
       THEN WordFallbacks(toks, i + 1, items)
       ELSE WordFallbacks(toks, i + 1,
              Append(items, [text |-> toks[i], kind |-> "word", source |-> "corrected",
                             canonical_key |-> <<"w","o","r","d",":">> \o toks[i]]))

\* every candidate before grouping
CandidateItems(raw_units, corrected_text, source_text) ==
  LET items == RawItems(raw_units, 1, {}, extract_pattern_candidates(corrected_text),
                        source_text)
      has_phrases == \E i \in 1..Len(items) : items[i].kind \in {"sentence", "chunk", "pattern"}
  IN IF has_phrases THEN items
     ELSE WordFallbacks(tokenize(corrected_text), 1, items)

\* GroupedPut without the dictionary: every item is kept
GroupedPutAppend(grouped, item) == Append(grouped, item)

\* grouped[key] = item, in a dictionary that keeps insertion order
GroupedPut(grouped, item) ==
  IF item.canonical_key \notin ItemKeys(grouped)
  THEN Append(grouped, item)
  ELSE LET pos == CHOOSE k \in 1..Len(grouped) : grouped[k].canonical_key = item.canonical_key
       IN IF KindRank(item.kind) > KindRank(grouped[pos].kind)
          THEN [grouped EXCEPT ![pos] = item]
          ELSE grouped

RECURSIVE GroupByKey(_, _, _)
GroupByKey(items, i, grouped) ==
  IF i > Len(items) THEN grouped
  ELSE GroupByKey(items, i + 1, GroupedPut(grouped, items[i]))

canonicalize_candidates(raw_units, corrected_text, source_text) ==
  GroupByKey(CandidateItems(raw_units, corrected_text, source_text), 1, <<>>)

\* ------------------------------------------------------------------------
\* conversation.py: _strict_validate_units
\* ------------------------------------------------------------------------
NoReason == "None"

Unit(item, confidence, is_accepted, reject_reason, mission_relevance) ==
  [text |-> item.text, kind |-> item.kind, source |-> item.source,
   confidence |-> confidence, is_accepted |-> is_accepted,
   reject_reason |-> reject_reason, canonical_key |-> item.canonical_key,
   mission_relevance |-> mission_relevance]

\* MissionRelevance with the number of shared tokens for their share
MissionRelevanceCount(item, mission_kw) ==
  LET tokens == TokenSet(item.text)
      base == IF mission_kw # {}
              THEN R(Cardinality(tokens \cap mission_kw), 1)
              ELSE R(0, 1)
  IN IF item.kind \in {"pattern", "sentence"} THEN RMax(base, Pct(70)) ELSE base

\* MissionRelevance without the floor of patterns and sentences
MissionRelevanceNoFloor(item, mission_kw) ==
  LET tokens == TokenSet(item.text)
  IN IF mission_kw # {}
     THEN RMin(R(1, 1), R(Cardinality(tokens \cap mission_kw),
                          SeqMax(1, Cardinality(mission_kw))))
     ELSE R(0, 1)

\* mission_relevance of a unit (lines 325-330)
MissionRelevance(item, mission_kw) ==
  LET tokens == TokenSet(item.text)
      base == IF mission_kw # {}
              THEN RMin(R(1, 1), R(Cardinality(tokens \cap mission_kw),
                                   SeqMax(1, Cardinality(mission_kw))))
              ELSE R(0, 1)
  IN IF item.kind \in {"pattern", "sentence"} THEN RMax(base, Pct(70)) ELSE base

InCorrected(item, corrected_text) ==
  \/ Contains(corrected_text, item.text)
  \/ StartsWith(item.canonical_key, <<"p","a","t","t","e","r","n",":">>)
  \/ item.kind = "sentence"

InSource(item, source_text) ==
  Contains(source_text, item.text) \/ item.kind = "sentence"

\* Confidence with 0.65 for a unit found in neither text
ConfidenceOfUnseen(item, corrected_text, source_text) ==
  LET in_corrected == InCorrected(item, corrected_text)
      in_source == InSource(item, source_text)
      c0 == IF in_source /\ in_corrected THEN Pct(90)
            ELSE IF in_source \/ in_corrected THEN Pct(75)
            ELSE Pct(65)
      c1 == IF item.kind = "pattern" THEN RMax(c0, Pct(82)) ELSE c0
  IN IF item.kind = "sentence" THEN RMax(c1, Pct(85)) ELSE c1

\* confidence of a unit (lines 341-345)
Confidence(item, corrected_text, source_text) ==
  LET in_corrected == InCorrected(item, corrected_text)
      in_source == InSource(item, source_text)
      c0 == IF in_source /\ in_corrected THEN Pct(90)
            ELSE IF in_source \/ in_corrected THEN Pct(75)
            ELSE Pct(55)
      c1 == IF item.kind = "pattern" THEN RMax(c0, Pct(82)) ELSE c0
  IN IF item.kind = "sentence" THEN RMax(c1, Pct(85)) ELSE c1

\* the rules of lines 288-323, for a unit that is neither pattern nor sentence:
\* the reason of the first rule that rejects, or NoReason
EarlyReason(item) ==
  IF item.kind = "chunk" /\ Str(item.text) \in INCOMPLETE_PATTERNS
  THEN "incomplete_pattern"
  ELSE IF /\ item.kind = "chunk"
          /\ Cardinality(TokenSet(item.text)) >= 10
          /\ ~StartsWith(item.canonical_key, <<"p","a","t","t","e","r","n",":">>)
  THEN "too_broad"
  ELSE IF Len(item.text) <= 1
  THEN "too_short"
  ELSE IF Str(item.text) \in STOP_WORDS
  THEN "stop_word"
  ELSE NoReason

\* the fixed confidence written into a unit rejected by lines 288-323
EarlyConfidence(reason) ==
  CASE reason = "incomplete_pattern" -> Pct(45)
    [] reason = "too_broad" -> Pct(50)
    [] reason = "too_short" -> Pct(30)
    [] reason = "stop_word" -> Pct(35)

\* Verdict with the off_mission rule tried before the low_confidence rule
VerdictOffMissionFirst(item, early, tokens, mission_relevance, confidence, corrected_form, corrected_text, selected_token_sets, selected_pattern_token_sets) ==
  IF early # NoReason
  THEN Unit(item, EarlyConfidence(early), FALSE, early, R(0, 1))
  ELSE IF /\ corrected_form # <<>>
          /\ ~InCorrected(item, corrected_text)
          /\ item.kind \in {"chunk", "word"}
  THEN Unit(item, Pct(50), FALSE, "grammar_invalid", mission_relevance)
  ELSE IF RLt(confidence, Pct(72)) /\ RLt(mission_relevance, Pct(50))
  THEN Unit(item, confidence, FALSE, "off_mission", mission_relevance)
  ELSE IF RLt(confidence, Pct(60))
  THEN Unit(item, confidence, FALSE, "low_confidence", mission_relevance)
  ELSE IF /\ item.kind \in {"chunk", "word"}
          /\ \E k \in 1..Len(selected_pattern_token_sets) :
               tokens # {} /\ tokens \subseteq selected_pattern_token_sets[k]
  THEN Unit(item, confidence, FALSE, "covered_by_pattern", mission_relevance)
  ELSE IF /\ item.kind = "word"
          /\ \E k \in 1..Len(selected_token_sets) : tokens \subseteq selected_token_sets[k]
          /\ RLt(mission_relevance, Pct(95))
  THEN Unit(item, confidence, FALSE, "covered_by_chunk", mission_relevance)
  ELSE Unit(item, confidence, TRUE, NoReason, mission_relevance)

\* Verdict without the two coverage rules
VerdictNoCoverage(item, early, tokens, mission_relevance, confidence, corrected_form, corrected_text, selected_token_sets, selected_pattern_token_sets) ==
  IF early # NoReason
  THEN Unit(item, EarlyConfidence(early), FALSE, early, R(0, 1))
  ELSE IF /\ corrected_form # <<>>
          /\ ~InCorrected(item, corrected_text)
          /\ item.kind \in {"chunk", "word"}
  THEN Unit(item, Pct(50), FALSE, "grammar_invalid", mission_relevance)
  ELSE IF RLt(confidence, Pct(60))
  THEN Unit(item, confidence, FALSE, "low_confidence", mission_relevance)
  ELSE IF RLt(confidence, Pct(72)) /\ RLt(mission_relevance, Pct(50))
  THEN Unit(item, confidence, FALSE, "off_mission", mission_relevance)
  ELSE Unit(item, confidence, TRUE, NoReason, mission_relevance)

\* the rules of lines 332-392 in their order, for a unit with the reason of the
\* rules before them, its token set, its mission relevance and its confidence
Verdict(item, early, tokens, mission_relevance, confidence, corrected_form, corrected_text, selected_token_sets, selected_pattern_token_sets) ==
  IF early # NoReason
  THEN Unit(item, EarlyConfidence(early), FALSE, early, R(0, 1))
  ELSE IF /\ corrected_form # <<>>
          /\ ~InCorrected(item, corrected_text)
          /\ item.kind \in {"chunk", "word"}
  THEN Unit(item, Pct(50), FALSE, "grammar_invalid", mission_relevance)
  ELSE IF RLt(confidence, Pct(60))
  THEN Unit(item, confidence, FALSE, "low_confidence", mission_relevance)
  ELSE IF RLt(confidence, Pct(72)) /\ RLt(mission_relevance, Pct(50))
  THEN Unit(item, confidence, FALSE, "off_mission", mission_relevance)
  ELSE IF /\ item.kind \in {"chunk", "word"}
          /\ \E k \in 1..Len(selected_pattern_token_sets) :
               tokens # {} /\ tokens \subseteq selected_pattern_token_sets[k]
  THEN Unit(item, confidence, FALSE, "covered_by_pattern", mission_relevance)
  ELSE IF /\ item.kind = "word"
          /\ \E k \in 1..Len(selected_token_sets) : tokens \subseteq selected_token_sets[k]
          /\ RLt(mission_relevance, Pct(95))
  THEN Unit(item, confidence, FALSE, "covered_by_chunk", mission_relevance)
  ELSE Unit(item, confidence, TRUE, NoReason, mission_relevance)

\* one pass of the loop body (lines 282-392): the validated unit of the item,
\* given the token sets of the units accepted so far
ValidateItem(item, corrected_form, corrected_text, source_text, mission_kw, selected_token_sets, selected_pattern_token_sets) ==
  Verdict(item,
          IF item.kind \notin {"pattern", "sentence"} THEN EarlyReason(item) ELSE NoReason,
          TokenSet(item.text),
          MissionRelevance(item, mission_kw),
          Confidence(item, corrected_text, source_text),
          corrected_form, corrected_text, selected_token_sets, selected_pattern_token_sets)

\* Collect with the token set of every accepted unit, whatever its kind, added
\* to selected_pattern_token_sets
CollectAllAsPatterns(st, item, u) ==
  IF u.is_accepted
  THEN [accepted |-> Append(st.accepted, u),
        rejected |-> st.rejected,
        selected_token_sets |-> Append(st.selected_token_sets, TokenSet(item.text)),
        selected_pattern_token_sets |->
          Append(st.selected_pattern_token_sets, TokenSet(item.text))]
  ELSE [st EXCEPT !.rejected = Append(st.rejected, u)]

\* the loop state after the validated unit u of an item (lines 297-392: the
\* appends to accepted, rejected and the two lists of token sets)
Collect(st, item, u) ==
  IF u.is_accepted
  THEN [accepted |-> Append(st.accepted, u),
        rejected |-> st.rejected,
        selected_token_sets |-> Append(st.selected_token_sets, TokenSet(item.text)),
        selected_pattern_token_sets |->
          IF item.kind \in {"pattern", "sentence"}
          THEN Append(st.selected_pattern_token_sets, TokenSet(item.text))
          ELSE st.selected_pattern_token_sets]
  ELSE [st EXCEPT !.rejected = Append(st.rejected, u)]

\* the loop state after one more item
GateStep(st, item, corrected_form, corrected_text, source_text, mission_kw) ==
  Collect(st, item,
          ValidateItem(item, corrected_form, corrected_text, source_text, mission_kw,
                       st.selected_token_sets, st.selected_pattern_token_sets))

RECURSIVE GateLoop(_, _, _, _, _, _, _)
GateLoop(items, i, st, corrected_form, corrected_text, source_text, mission_kw) ==
  IF i > Len(items) THEN st
  ELSE GateLoop(items, i + 1,
                GateStep(st, items[i], corrected_form, corrected_text, source_text, mission_kw),
                corrected_form, corrected_text, source_text, mission_kw)

\* QualityScore with the bonus of an accepted unit given to every call
QualityScoreBonusAlways(n_accepted, n_items, penalised) ==
  LET accepted_ratio == R(n_accepted, SeqMax(1, n_items))
      correction_penalty == IF penalised THEN Pct(20) ELSE R(0, 1)
  IN RMax(R(0, 1),
          RMin(R(1, 1),
               RSub(RAdd(RMul(accepted_ratio, Pct(70)), Pct(30)), correction_penalty)))

\* QualityScore with the ratio of the units that were not accepted
QualityScoreOfRejected(n_accepted, n_items, penalised) ==
  LET rejected_ratio == R(n_items - n_accepted, SeqMax(1, n_items))
      bonus == IF n_accepted > 0 THEN Pct(30) ELSE R(0, 1)
      correction_penalty == IF penalised THEN Pct(20) ELSE R(0, 1)
  IN RMax(R(0, 1),
          RMin(R(1, 1),
               RSub(RAdd(RMul(rejected_ratio, Pct(70)), bonus), correction_penalty)))

\* QualityScore without the correction penalty
QualityScoreNoPenalty(n_accepted, n_items, penalised) ==
  LET accepted_ratio == R(n_accepted, SeqMax(1, n_items))
      bonus == IF n_accepted > 0 THEN Pct(30) ELSE R(0, 1)
  IN RMax(R(0, 1), RMin(R(1, 1), RAdd(RMul(accepted_ratio, Pct(70)), bonus)))

\* quality of lines 394-396
QualityScore(n_accepted, n_items, penalised) ==
  LET accepted_ratio == R(n_accepted, SeqMax(1, n_items))
      bonus == IF n_accepted > 0 THEN Pct(30) ELSE R(0, 1)
      correction_penalty == IF penalised THEN Pct(20) ELSE R(0, 1)
  IN RMax(R(0, 1),
          RMin(R(1, 1),
               RSub(RAdd(RMul(accepted_ratio, Pct(70)), bonus), correction_penalty)))

\* the result (accepted, rejected, quality) of lines 394-397, with the canonical
\* items it was computed from
GateResult(canonical_items, st, penalised) ==
  [canonical_items |-> canonical_items,
   accepted |-> st.accepted,
   rejected |-> st.rejected,
   quality |-> QualityScore(Len(st.accepted), Len(canonical_items), penalised)]

\* lines 275-397: the loop over the canonical items, and the result
ValidateCanonical(canonical_items, corrected_form, corrected_text, source_text, mission_kw) ==
  GateResult(canonical_items,
             GateLoop(canonical_items, 1,
                      [accepted |-> <<>>, rejected |-> <<>>,
                       selected_token_sets |-> <<>>, selected_pattern_token_sets |-> <<>>],
                      corrected_form, corrected_text, source_text, mission_kw),
             corrected_form # <<>> /\ normalize_text(corrected_form) # source_text)

\* lines 270-274: the candidates and their canonical items, for the normalised texts
ValidateTexts(user_text, corrected_form, raw_units, mission_hint, source_text, corrected_text) ==
  ValidateCanonical(
    canonicalize_candidates(IF raw_units # <<>> THEN raw_units
                            ELSE extract_user_vocabulary(user_text),
                            corrected_text, source_text),
    corrected_form, corrected_text, source_text, mission_keywords(mission_hint))

strict_validate_units(user_text, corrected_form, raw_units, mission_hint) ==
  ValidateTexts(user_text, corrected_form, raw_units, mission_hint,
                normalize_text(user_text),
                IF corrected_form # <<>> THEN normalize_text(corrected_form)
                ELSE normalize_text(user_text))

\* ------------------------------------------------------------------------
\* graph.py: helpers
\* ------------------------------------------------------------------------
\* graph.py: _to_id
to_id(word) ==
  ReplaceChar(ReplaceChar(ReplaceChar(Lower(Strip(word)), " ", <<"_">>), "'", <<>>),
              RightSingleQuote, <<>>)

\* graph.py: _norm_text
norm_text(value) ==
  Join(Split(ReplaceChar(Lower(Strip(value)), RightSingleQuote, <<"'">>)), <<" ">>)

HasSpace(t) == \E i \in 1..Len(t) : t[i] = " "

\* str.split(" ") of a text: the pieces between consecutive spaces
SplitOnSpace(t) ==
  LET cuts == {0, Len(t) + 1} \cup {i \in 1..Len(t) : t[i] = " "}
      Cut(k) == CHOOSE c \in cuts : Cardinality({x \in cuts : x < c}) = k - 1
  IN [k \in 1..(Cardinality(cuts) - 1) |-> SubSeq(t, Cut(k) + 1, Cut(k + 1) - 1)]

\* graph.py: _is_component_of_phrase
is_component_of_phrase(token, phrase) ==
  LET token_n == norm_text(token)
      phrase_n == norm_text(phrase)
      parts == SplitOnSpace(phrase_n)
  IN IF token_n = <<>> \/ phrase_n = <<>> \/ token_n = phrase_n THEN FALSE
     ELSE IF ~HasSpace(phrase_n) THEN FALSE
     ELSE \E k \in 1..Len(parts) : parts[k] = token_n

low_signal_tokens ==
  {"ca", "ça", "va", "je", "tu", "il", "elle", "nous", "vous",
   "de", "du", "des", "un", "une", "et", "a", "est"}

ExemptPrefixes == {<<"j","e"," ","s","u","i","s"," ","+">>, <<"j","'","a","i","m","e"," ","+">>, <<"j","'","a","i"," ","e","n","v","i","e"," ","d","e"," ","+">>}

\* TooManyWords with seven words for six
TooManyWordsFromSeven(n) ==
  Len(SplitOnSpace(n)) >= 7 /\ ~\E pre \in ExemptPrefixes : StartsWith(n, pre)

\* lines 66-68: six words or more, and none of the exempt prefixes
TooManyWords(n) ==
  Len(SplitOnSpace(n)) >= 6 /\ ~\E pre \in ExemptPrefixes : StartsWith(n, pre)

\* the first loop of _pedagogical_items
RECURSIVE Cleaned(_, _, _, _)
Cleaned(items, i, seen_norm, cleaned) ==
  IF i > Len(items) THEN cleaned
  ELSE LET text == Strip(items[i])
           n == norm_text(text)
       IN IF \/ Len(text) <= 1
             \/ Str(n) \in low_signal_tokens
             \/ TooManyWords(n)
             \/ n = <<>>
             \/ Str(n) \in seen_norm
          THEN Cleaned(items, i + 1, seen_norm, cleaned)
          ELSE Cleaned(items, i + 1, seen_norm \cup {Str(n)}, Append(cleaned, text))

\* graph.py: _pedagogical_items
pedagogical_items(items) ==
  LET cleaned == Cleaned(items, 1, {}, <<>>)
      IsPhrase(x) == HasSpace(norm_text(x))
      phrases == SelectSeq(cleaned, IsPhrase)
      Kept(item) == ~\E k \in 1..Len(phrases) : is_component_of_phrase(item, phrases[k])
  IN IF phrases = <<>> THEN cleaned ELSE SelectSeq(cleaned, Kept)

IsAccepted(u) == u.is_accepted
AcceptedUnits(t) == SelectSeq(t.response.validated_user_units, IsAccepted)
Texts(units) == [i \in 1..Len(units) |-> units[i].text]

\* ------------------------------------------------------------------------
\* graph.py: graph_nodes (MOCK_MODE off)
\* ------------------------------------------------------------------------
\* NodeMastery without the clamp of line 149 to [0.15, 1]
NodeMasteryNoFloor(stat, unit_kind, word, cur_turn, scores) ==
  LET avg_conf == RMul(stat.sum_conf, R(1, SeqMax(1, stat.count)))
      reuse_score == RMin(R(1, 1), R(stat.count - 1, 4))
      recency_decay == RMax(R(0, 1),
                            RSub(R(1, 1), RMul(R(cur_turn - stat.last_turn, 1), Pct(8))))
      base == RAdd(RAdd(RAdd(Pct(22), RMul(avg_conf, Pct(38))),
                        RMul(reuse_score, Pct(30))),
                   RMul(recency_decay, Pct(10)))
      learned_mastery == IF unit_kind = "pattern" THEN RAdd(base, Pct(5)) ELSE base
      history_mastery == IF HasKey(scores, word)
                         THEN Get(scores, word) ELSE learned_mastery
      mastery == RAdd(RMul(learned_mastery, Pct(65)), RMul(history_mastery, Pct(35)))
  IN RMin(R(1, 1), RMax(R(0, 1), mastery))

\* the mastery computed at lines 142-149, then clamped by _add_node (line 113)
NodeMastery(stat, unit_kind, word, cur_turn, scores) ==
  LET avg_conf == RMul(stat.sum_conf, R(1, SeqMax(1, stat.count)))
      reuse_score == RMin(R(1, 1), R(stat.count - 1, 4))
      recency_decay == RMax(R(0, 1),
                            RSub(R(1, 1), RMul(R(cur_turn - stat.last_turn, 1), Pct(8))))
      base == RAdd(RAdd(RAdd(Pct(22), RMul(avg_conf, Pct(38))),
                        RMul(reuse_score, Pct(30))),
                   RMul(recency_decay, Pct(10)))
      learned_mastery == IF unit_kind = "pattern" THEN RAdd(base, Pct(5)) ELSE base
      history_mastery == IF HasKey(scores, word)
                         THEN Get(scores, word) ELSE learned_mastery
      mastery == RMin(R(1, 1),
                      RMax(Pct(15), RAdd(RMul(learned_mastery, Pct(65)),
                                         RMul(history_mastery, Pct(35)))))
  IN RMin(R(1, 1), RMax(R(0, 1), mastery))

NodeType(unit_kind, word) ==
  IF unit_kind = "chunk" \/ HasSpace(word) THEN "sentence"
  ELSE IF unit_kind = "pattern" THEN "grammar"
  ELSE "vocab"

\* the body of the inner loop (lines 129-150) for one word of one turn
NodeStep(g, t, word, cur_turn, user_level, scores) ==
  LET accepted_units == AcceptedUnits(t)
      Matches(u) == norm_text(u.text) = norm_text(word)
      matched == SelectSeq(accepted_units, Matches)
      unit_kind == IF matched # <<>> THEN matched[1].kind ELSE "word"
      canonical == IF matched # <<>> THEN matched[1].canonical_key ELSE <<>>
      old == IF HasKey(g.unit_stats, word) THEN Get(g.unit_stats, word)
             ELSE [count |-> 0, sum_conf |-> R(0, 1), first_turn |-> t.turn_number,
                   last_turn |-> t.turn_number, canonical |-> canonical]
      stat == [count |-> old.count + 1,
               sum_conf |-> RAdd(old.sum_conf,
                                 IF matched # <<>> THEN matched[1].confidence ELSE Pct(75)),
               first_turn |-> old.first_turn,
               last_turn |-> t.turn_number,
               canonical |-> IF canonical # <<>> THEN canonical ELSE old.canonical]
      stats == Put(g.unit_stats, word, stat)
      node_id == to_id(word)
  IN IF word = <<>> THEN g
     ELSE IF node_id = <<>> \/ node_id \in g.seen_ids
     THEN [g EXCEPT !.unit_stats = stats]
     ELSE [nodes |-> Append(g.nodes,
                       [id |-> node_id, label |-> word,
                        type |-> NodeType(unit_kind, word),
                        mastery |-> NodeMastery(stat, unit_kind, word, cur_turn, scores),
                        level |-> user_level, turn_introduced |-> t.turn_number]),
           seen_ids |-> g.seen_ids \cup {node_id},
           unit_stats |-> stats]

RECURSIVE NodeWords(_, _, _, _, _, _, _)
NodeWords(g, t, words, i, cur_turn, user_level, scores) ==
  IF i > Len(words) THEN g
  ELSE NodeWords(NodeStep(g, t, words[i], cur_turn, user_level, scores),
                 t, words, i + 1, cur_turn, user_level, scores)

RECURSIVE NodeTurns(_, _, _, _, _, _)
NodeTurns(g, history, i, cur_turn, user_level, scores) ==
  IF i > Len(history) THEN g
  ELSE NodeTurns(NodeWords(g, history[i],
                           pedagogical_items(Texts(AcceptedUnits(history[i]))), 1,
                           cur_turn, user_level, scores),
                 history, i + 1, cur_turn, user_level, scores)

graph_nodes(history, cur_turn, user_level, scores) ==
  NodeTurns([nodes |-> <<>>, seen_ids |-> {}, unit_stats |-> <<>>],
            history, 1, cur_turn, user_level, scores).nodes

\* ------------------------------------------------------------------------
\* graph.py: graph_links (MOCK_MODE off)
\* ------------------------------------------------------------------------
DegreeCap == 4

\* node_ids of lines 170-179
RECURSIVE NodeIds(_, _)
NodeIds(history, i) ==
  IF i > Len(history) THEN {}
  ELSE LET words == pedagogical_items(Texts(AcceptedUnits(history[i])))
       IN {to_id(words[k]) : k \in {m \in 1..Len(words) : words[m] # <<>>}}
          \cup NodeIds(history, i + 1)

\* add_link without the test that both ends are nodes
add_linkUnchecked(L, node_ids, src, tgt, rel, turn_number, evidence_units) ==
  LET src_id == to_id(src)
      tgt_id == to_id(tgt)
      key == {src_id, tgt_id}
  IN IF src_id = <<>> \/ tgt_id = <<>> \/ src_id = tgt_id THEN L
     ELSE IF key \in L.seen THEN L
     ELSE [links |-> Append(L.links,
                       [source |-> src_id, target |-> tgt_id, relationship |-> rel,
                        evidence_units |-> SubSeq(evidence_units, 1, SeqMin(2, Len(evidence_units))),
                        turn_introduced |-> turn_number]),
           seen |-> L.seen \cup {key}]

\* add_link with the ordered pair (source, target) for key
add_linkOrderedKey(L, node_ids, src, tgt, rel, turn_number, evidence_units) ==
  LET src_id == to_id(src)
      tgt_id == to_id(tgt)
      key == <<src_id, tgt_id>>
  IN IF src_id = <<>> \/ tgt_id = <<>> \/ src_id = tgt_id THEN L
     ELSE IF src_id \notin node_ids \/ tgt_id \notin node_ids THEN L
     ELSE IF key \in L.seen THEN L
     ELSE [links |-> Append(L.links,
                       [source |-> src_id, target |-> tgt_id, relationship |-> rel,
                        evidence_units |-> SubSeq(evidence_units, 1, SeqMin(2, Len(evidence_units))),
                        turn_introduced |-> turn_number]),
           seen |-> L.seen \cup {key}]

\* graph_links._add_link; the key (min, max) of an unordered pair is the set of its ends
add_link(L, node_ids, src, tgt, rel, turn_number, evidence_units) ==
  LET src_id == to_id(src)
      tgt_id == to_id(tgt)
      key == {src_id, tgt_id}
  IN IF src_id = <<>> \/ tgt_id = <<>> \/ src_id = tgt_id THEN L
     ELSE IF src_id \notin node_ids \/ tgt_id \notin node_ids THEN L
     ELSE IF key \in L.seen THEN L
     ELSE [links |-> Append(L.links,
                       [source |-> src_id, target |-> tgt_id, relationship |-> rel,
                        evidence_units |-> SubSeq(evidence_units, 1, SeqMin(2, Len(evidence_units))),
                        turn_introduced |-> turn_number]),
           seen |-> L.seen \cup {key}]

\* rel_map.get(type, "semantic")
RelOf(type) ==
  CASE type = "semantic" -> "semantic"
    [] type = "conjugation" -> "conjugation"
    [] type = "prerequisite" -> "prerequisite"
    [] type = "correction" -> "reactivation"
    [] OTHER -> "semantic"

\* ExplicitOfTurn that takes the first entry of a turn only
RECURSIVE ExplicitOfTurnFirstOnly(_, _, _, _, _)
ExplicitOfTurnFirstOnly(L, node_ids, t, gls, i) ==
  IF i > Len(gls) \/ i > 1 THEN L
  ELSE ExplicitOfTurnFirstOnly(add_link(L, node_ids, gls[i].source, gls[i].target,
                                        RelOf(gls[i].type), t.turn_number,
                                        <<gls[i].source, gls[i].target>>),
                               node_ids, t, gls, i + 1)

\* Strategy 1 (lines 208-219)
RECURSIVE ExplicitOfTurn(_, _, _, _, _)
ExplicitOfTurn(L, node_ids, t, gls, i) ==
  IF i > Len(gls) THEN L
  ELSE ExplicitOfTurn(add_link(L, node_ids, gls[i].source, gls[i].target,
                               RelOf(gls[i].type), t.turn_number,
                               <<gls[i].source, gls[i].target>>),
                      node_ids, t, gls, i + 1)

RECURSIVE Strategy1(_, _, _, _)
Strategy1(L, node_ids, history, i) ==
  IF i > Len(history) THEN L
  ELSE Strategy1(ExplicitOfTurn(L, node_ids, history[i], history[i].response.graph_links, 1),
                 node_ids, history, i + 1)

\* list(dict.fromkeys(texts)): the first occurrences, in order
RECURSIVE Distinct(_, _, _)
Distinct(texts, i, acc) ==
  IF i > Len(texts) THEN acc
  ELSE IF \E k \in 1..Len(acc) : acc[k] = texts[i]
       THEN Distinct(texts, i + 1, acc)
       ELSE Distinct(texts, i + 1, Append(acc, texts[i]))

\* by_key of lines 228-234: the keys in insertion order
RECURSIVE KeysInOrder(_, _, _)
KeysInOrder(units, i, acc) ==
  IF i > Len(units) THEN acc
  ELSE IF units[i].canonical_key = <<>> \/ units[i].text = <<>>
          \/ \E k \in 1..Len(acc) : acc[k] = units[i].canonical_key
       THEN KeysInOrder(units, i + 1, acc)
       ELSE KeysInOrder(units, i + 1, Append(acc, units[i].canonical_key))

\* TextsOfKey with the texts of the units of every key
TextsOfEveryKey(units, key) ==
  LET HasText(u) == u.text # <<>>
  IN Texts(SelectSeq(units, HasText))

\* by_key[key] of lines 228-234
TextsOfKey(units, key) ==
  LET OfKey(u) == u.canonical_key = key /\ u.text # <<>>
  IN Texts(SelectSeq(units, OfKey))

RECURSIVE Chain(_, _, _, _, _, _)
Chain(L, node_ids, t, key, texts, i) ==
  IF i > Len(texts) - 1 THEN L
  ELSE Chain(add_link(L, node_ids, texts[i], texts[i + 1],
                      IF StartsWith(key, <<"p","a","t","t","e","r","n",":">>) THEN "conjugation" ELSE "semantic",
                      t.turn_number, <<texts[i], texts[i + 1]>>),
             node_ids, t, key, texts, i + 1)

RECURSIVE SharedKeyOfTurn(_, _, _, _, _)
SharedKeyOfTurn(L, node_ids, t, keys, i) ==
  IF i > Len(keys) THEN L
  ELSE LET texts == TextsOfKey(AcceptedUnits(t), keys[i])
       IN SharedKeyOfTurn(
            IF Len(texts) < 2 THEN L
            ELSE Chain(L, node_ids, t, keys[i], Distinct(texts, 1, <<>>), 1),
            node_ids, t, keys, i + 1)

\* Strategy 2 (lines 221-247)
RECURSIVE Strategy2(_, _, _, _)
Strategy2(L, node_ids, history, i) ==
  IF i > Len(history) THEN L
  ELSE Strategy2(SharedKeyOfTurn(L, node_ids, history[i],
                                 KeysInOrder(AcceptedUnits(history[i]), 1, <<>>), 1),
                 node_ids, history, i + 1)

\* MissionRelevanceFloor with 0.30 for 0.55
MissionRelevanceFloorLow == Pct(30)

MissionRelevanceFloor == Pct(55)

\* mission_units of lines 260-265
MissionUnits(t) ==
  LET accepted == pedagogical_items(Texts(AcceptedUnits(t)))
      Relevant(u) == RLe(MissionRelevanceFloor, u.mission_relevance)
      relevant == pedagogical_items(Texts(SelectSeq(AcceptedUnits(t), Relevant)))
  IN IF relevant # <<>> THEN relevant ELSE SubSeq(accepted, 1, SeqMin(1, Len(accepted)))

\* the pairs (old_unit, new_unit) of lines 271-272, in loop order
MissionPairs(t) ==
  LET all == pedagogical_items(t.response.reactivated_elements)
      reactivated == SubSeq(all, 1, SeqMin(2, Len(all)))
      mu == MissionUnits(t)
      mission_units == SubSeq(mu, 1, SeqMin(2, Len(mu)))
  IN [k \in 1..(Len(reactivated) * Len(mission_units)) |->
        [old_unit |-> reactivated[((k - 1) \div Len(mission_units)) + 1],
         new_unit |-> mission_units[((k - 1) % Len(mission_units)) + 1]]]

RECURSIVE MissionOfTurn(_, _, _, _, _)
MissionOfTurn(L, node_ids, t, pairs, i) ==
  IF i > Len(pairs) THEN L
  ELSE MissionOfTurn(
         IF norm_text(pairs[i].old_unit) = norm_text(pairs[i].new_unit) THEN L
         ELSE add_link(L, node_ids, pairs[i].old_unit, pairs[i].new_unit, "mission",
                       t.turn_number, <<pairs[i].old_unit, pairs[i].new_unit>>),
         node_ids, t, pairs, i + 1)

\* Strategy 3 (lines 249-282)
RECURSIVE Strategy3(_, _, _, _)
Strategy3(L, node_ids, history, i) ==
  IF i > Len(history) THEN L
  ELSE Strategy3(
         IF pedagogical_items(Texts(AcceptedUnits(history[i]))) = <<>> THEN L
         ELSE MissionOfTurn(L, node_ids, history[i], MissionPairs(history[i]), 1),
         node_ids, history, i + 1)

\* the links of the three strategies, before the degree cap
MergedLinks(history) ==
  LET node_ids == NodeIds(history, 1)
      l1 == Strategy1([links |-> <<>>, seen |-> {}], node_ids, history, 1)
      l2 == Strategy2(l1, node_ids, history, 1)
  IN Strategy3(l2, node_ids, history, 1).links

\* priority.get(relationship, 0)
Priority(rel) ==
  CASE rel = "mission" -> 5
    [] rel = "reactivation" -> 4
    [] rel = "prerequisite" -> 3
    [] rel = "conjugation" -> 2
    [] rel = "semantic" -> 1
    [] OTHER -> 0

\* the sort key (priority, turn_introduced) of a is at least that of b
KeyGe(a, b) ==
  \/ Priority(a.relationship) > Priority(b.relationship)
  \/ /\ Priority(a.relationship) = Priority(b.relationship)
     /\ a.turn_introduced >= b.turn_introduced

\* sorted(links, key=..., reverse=True): descending and stable
RECURSIVE SortedLinks(_, _, _)
SortedLinks(links, i, acc) ==
  IF i > Len(links) THEN acc
  ELSE LET n == Cardinality({k \in 1..Len(acc) : KeyGe(acc[k], links[i])})
       IN SortedLinks(links, i + 1,
                      SubSeq(acc, 1, n) \o <<links[i]>> \o SubSeq(acc, n + 1, Len(acc)))

DegreeOf(degree, id) == IF id \in DOMAIN degree THEN degree[id] ELSE 0

\* CapReached with > for >=
CapReachedAbove(degree, link) ==
  DegreeOf(degree, link.source) > DegreeCap \/ DegreeOf(degree, link.target) > DegreeCap

\* whether the greedy pass skips a link (line 296)
CapReached(degree, link) ==
  DegreeOf(degree, link.source) >= DegreeCap \/ DegreeOf(degree, link.target) >= DegreeCap

\* the greedy pass of lines 291-300
RECURSIVE CapLinks(_, _, _, _)
CapLinks(sorted_links, i, degree, capped_links) ==
  IF i > Len(sorted_links) THEN capped_links
  ELSE LET link == sorted_links[i]
       IN IF CapReached(degree, link)
          THEN CapLinks(sorted_links, i + 1, degree, capped_links)
          ELSE CapLinks(sorted_links, i + 1,
                 [id \in DOMAIN degree \cup {link.source, link.target} |->
                    DegreeOf(degree, id) + (IF id \in {link.source, link.target} THEN 1 ELSE 0)],
                 Append(capped_links, link))

graph_links(history) ==
  CapLinks(SortedLinks(MergedLinks(history), 1, <<>>), 1, <<>>, <<>>)

\* ------------------------------------------------------------------------
\* conversation.py: _build_mission_hint
\* ------------------------------------------------------------------------
missions ==
  << <<"I","n","t","r","o","d","u","c","e"," ","y","o","u","r","s","e","l","f"," ","i","n"," ","t","w","o"," ","s","h","o","r","t"," ","s","e","n","t","e","n","c","e","s",".">>,
     <<"S","a","y"," ","w","h","e","r","e"," ","y","o","u"," ","l","i","v","e"," ","a","n","d"," ","w","h","y"," ","y","o","u"," ","l","i","k","e"," ","t","h","a","t"," ","p","l","a","c","e",".">>,
     <<"T","a","l","k"," ","a","b","o","u","t"," ","a"," ","f","a","v","o","r","i","t","e"," ","a","c","t","i","v","i","t","y"," ","u","s","i","n","g"," ","'","I"," ","l","i","k","e",".",".","."," ","b","e","c","a","u","s","e",".",".",".","'",".">>,
     <<"D","e","s","c","r","i","b","e"," ","y","o","u","r"," ","p","l","a","n"," ","f","o","r"," ","t","o","n","i","g","h","t"," ","i","n"," ","t","w","o"," ","s","e","n","t","e","n","c","e","s",".">>,
     <<"A","s","k"," ","o","n","e"," ","s","i","m","p","l","e"," ","q","u","e","s","t","i","o","n"," ","t","o"," ","y","o","u","r"," ","c","o","n","v","e","r","s","a","t","i","o","n"," ","p","a","r","t","n","e","r",".">> >>

build_mission_hint(turn_number, user_level) ==
  LET idx == SeqMin(Len(missions) - 1, SeqMax(0, turn_number - 1))
      prefix == IF StartsWith(user_level, <<"A","2">>) THEN <<"M","i","s","s","i","o","n"," ","A","2","+">> ELSE <<"M","i","s","s","i","o","n"," ","A","1","-","A","2">>
  IN prefix \o <<":"," ">> \o missions[idx + 1]

\* ------------------------------------------------------------------------
\* The session (models.py: SessionState; session.py: _session_state)
\* ------------------------------------------------------------------------
VARIABLES
  turn,                  \* SessionState.turn
  level,                 \* SessionState.level
  mastery_scores,        \* SessionState.mastery_scores: text -> score
  conversation_history,  \* SessionState.conversation_history
  mission_state,         \* SessionState.mission_state
  gate                   \* the last call of _strict_validate_units: its arguments,
                         \* its canonical items and its result

VARIABLES
  demo_complete,         \* SessionState.demo_complete
  mock_mode,             \* config.MOCK_MODE
  conns,                 \* the WebSocket connections: the position of each in
                         \* conversation_ws and _process_turn, and its locals
  orphans,               \* the SessionState objects that reset_session_state
                         \* replaced and that a turn in flight still refers to
  background_tasks,      \* the _background_backboard tasks created and not yet run
  answered,              \* the replies to the message that was answered last,
                         \* until the next message is received
  current_profile_id,    \* session.py: _current_profile_id
  supabase,              \* the sessions table of Supabase: profile -> saved session
  backboard,             \* BackboardService: _mastery_scores and _learner_profile
  updates,               \* the calls a client made to the BackboardService
  call                   \* the last call of a pure function: its arguments and
                         \* its result

\* the fields of the SessionState object that get_session_state returns
session_vars == <<turn, level, mastery_scores, conversation_history, mission_state, demo_complete>>
\* the connections and the objects their turns refer to
ws_vars == <<conns, orphans, background_tasks, answered>>
\* the profile and the sessions saved for the profiles
persist_vars == <<current_profile_id, supabase>>
\* the services
service_vars == <<backboard, updates>>

vars ==
  <<turn, level, mastery_scores, conversation_history, mission_state, gate,
    demo_complete, mock_mode, conns, orphans, background_tasks, answered, current_profile_id, supabase,
    backboard, updates, call>>

NoGate ==
  [called |-> FALSE, user_text |-> <<>>, corrected_form |-> <<>>, raw_units |-> <<>>,
   mission_hint |-> <<>>, canonical_items |-> <<>>, accepted |-> <<>>, rejected |-> <<>>,
   quality |-> R(0, 1)]

\* SessionState(): the field defaults of models.py
InitialMissionState ==
  [current_hint |-> <<"M","i","s","s","i","o","n"," ","A","1","-","A","2",":"," ","I","n","t","r","o","d","u","c","e"," ","y","o","u","r","s","e","l","f"," ","i","n"," ","t","w","o"," ","s","h","o","r","t"," ","s","e","n","t","e","n","c","e","s",".">>,
   tasks |-> <<FALSE, FALSE, FALSE>>, done |-> 0, total |-> 3, percent |-> 0]

\* _current_profile_id = None
None == "None"

\* conversation_ws before a message is received: nothing of a turn is held
IdleConn ==
  [pc |-> "receive", state_ref |-> 0, message |-> <<>>, turn_index |-> 0,
   user_text |-> <<>>, tutor_response |-> <<>>, replies |-> <<>>]

\* no message was answered since the last one was received
NoAnswer == [conn |-> 0, replies |-> <<>>]

\* BackboardService.__init__
NewBackboard ==
  [mastery_scores |-> <<>>,
   learner_profile |-> [level |-> <<"A","1">>, total_turns |-> 0, border_update |-> ""]]

NoCall == [op |-> "none"]

\* the WebSocket connections of the model
Conns == {1, 2}

\* the profiles of the model
Profiles == {"p"}

\* the process after start-up, with MOCK_MODE as read from the environment
Started(mode) ==
  /\ turn = 1
  /\ level = <<"A","1">>
  /\ mastery_scores = <<>>
  /\ conversation_history = <<>>
  /\ mission_state = InitialMissionState
  /\ gate = NoGate
  /\ demo_complete = FALSE
  /\ mock_mode = mode
  /\ conns = [c \in Conns |-> IdleConn]
  /\ orphans = <<>>
  /\ background_tasks = <<>>
  /\ answered = NoAnswer
  /\ current_profile_id = None
  /\ supabase = [p \in Profiles |-> <<>>]
  /\ backboard = NewBackboard
  /\ updates = <<>>
  /\ call = NoCall

Init == Started(FALSE)

\* ------------------------------------------------------------------------
\* The messages a client sends and the responses the tutor LLM returns
\* ------------------------------------------------------------------------
NoScores == <<>>
Score(word, value) == <<[key |-> word, value |-> value]>>
Link(source, target, type) == [source |-> source, target |-> target, type |-> type]

Turn(user_text, corrected_form, user_vocabulary, graph_links_, reactivated_elements, user_level_assessment, mastery_scores_, is_opener) ==
  [user_text |-> user_text, corrected_form |-> corrected_form,
   user_vocabulary |-> user_vocabulary, graph_links |-> graph_links_,
   reactivated_elements |-> reactivated_elements,
   user_level_assessment |-> user_level_assessment,
   mastery_scores |-> mastery_scores_, is_opener |-> is_opener]

TurnInputs ==
  << \* a greeting, no vocabulary from the tutor
    Turn(<<"B","o","n","j","o","u","r">>, <<>>, <<>>, <<>>, <<>>, <<"A","1">>,
         NoScores, FALSE),
    \* the same word, misspelled by the learner and corrected by the tutor
    Turn(<<"b","o","n","j","u","r">>, <<"B","o","n","j","o","u","r">>, <<<<"b","o","n","j","o","u","r">>>>, <<>>, <<>>, <<"A","1">>,
         NoScores, FALSE),
    \* two words, and a reactivated element
    Turn(<<"b","o","n","j","o","u","r"," ","m","e","r","c","i">>, <<>>, <<<<"m","e","r","c","i">>, <<"B","o","n","j","o","u","r">>>>, <<>>, <<<<"b","o","n","j","o","u","r">>>>, <<"A","1","+">>,
         Score(<<"m","e","r","c","i">>, R(-2, 1)), FALSE),
    \* a phrase and its split tokens
    Turn(<<"ç","a"," ","v","a">>, <<>>, <<<<"ç","a"," ","v","a">>, <<"c","a">>, <<"v","a">>>>, <<>>, <<>>, <<"A","1">>,
         NoScores, FALSE),
    \* verb stems without a complement
    Turn(<<"j","e"," ","s","u","i","s">>, <<>>, <<<<"j","e"," ","s","u","i","s">>>>, <<>>, <<>>, <<"A","1">>, NoScores, FALSE),
    Turn(<<"j","'","a","i","m","e">>, <<>>, <<<<"j","'","a","i","m","e">>>>, <<>>, <<>>, <<"A","1">>, NoScores, FALSE),
    \* a pattern found by the detector and proposed by the tutor
    Turn(<<"J","e"," ","s","u","i","s"," ","c","o","n","t","e","n","t">>, <<>>, <<<<"j","e"," ","s","u","i","s"," ","c","o","n","t","e","n","t">>, <<"c","o","n","t","e","n","t">>>>,
         <<Link(<<"c","o","n","t","e","n","t">>, <<"b","o","n","j","o","u","r">>, "semantic"),
           Link(<<"b","o","n","j","o","u","r">>, <<"c","o","n","t","e","n","t">>, "correction")>>, <<<<"b","o","n","j","o","u","r">>>>, <<"A","2">>,
         NoScores, FALSE),
    \* a sentence and one of its words, in both orders
    Turn(<<"i","l"," ","f","a","i","t"," ","b","e","a","u">>, <<>>, <<<<"b","e","a","u">>, <<"i","l"," ","f","a","i","t"," ","b","e","a","u">>>>, <<>>,
         <<<<"b","o","n","j","o","u","r">>, <<"m","e","r","c","i">>>>, <<"A","1">>, NoScores, FALSE),
    Turn(<<"i","l"," ","f","a","i","t"," ","b","e","a","u">>, <<>>, <<<<"i","l"," ","f","a","i","t"," ","b","e","a","u">>, <<"b","e","a","u">>>>, <<>>, <<>>, <<"A","2">>,
         NoScores, FALSE),
    \* six words, and links from one of them to the five others
    Turn(<<"t","h","é"," ","v","i","n"," ","e","a","u"," ","s","e","l"," ","r","i","z"," ","b","l","é">>, <<>>, <<>>,
         << Link(<<"t","h","é">>, <<"v","i","n">>, "semantic"), Link(<<"t","h","é">>, <<"e","a","u">>, "prerequisite"),
            Link(<<"s","e","l">>, <<"t","h","é">>, "correction"), Link(<<"t","h","é">>, <<"r","i","z">>, "conjugation"),
            Link(<<"b","l","é">>, <<"t","h","é">>, "other"), Link(<<"v","i","n">>, <<"t","h","é">>, "semantic"),
            Link(<<"t","h","é">>, <<"l","a","i","t">>, "semantic") >>,
         <<>>, <<"A","1">>, NoScores, FALSE),
    \* a correction: one candidate absent from the corrected form
    Turn(<<"j","e"," ","m","a","n","g","e"," ","p","o","m","e">>, <<"J","e"," ","m","a","n","g","e"," ","u","n","e"," ","p","o","m","m","e">>, <<<<"p","o","m","e">>, <<"p","o","m","m","e">>>>, <<>>, <<>>,
         <<"B","1">>, Score(<<"p","o","m","m","e">>, R(2, 5)), FALSE),
    \* a candidate the learner did not say, a stop word and a single letter
    Turn(<<"b","o","n","j","o","u","r">>, <<>>, <<<<"m","e","r","c","i">>, <<"j","e">>, <<"x">>>>, <<>>, <<>>, <<"A","1">>,
         Score(<<"b","o","n","j","o","u","r">>, R(5, 2)), FALSE),
    \* a category opener
    Turn(<<"p","a","r","l","o","n","s"," ","d","e"," ","c","u","i","s","i","n","e">>, <<>>, <<<<"c","u","i","s","i","n","e">>>>, <<>>, <<>>, <<"A","1">>,
         NoScores, TRUE),
    \* words of the mission hint, and a reactivated element
    Turn(<<"b","o","n","j","o","u","r"," ","s","h","o","r","t"," ","s","e","n","t","e","n","c","e","s">>, <<>>,
         <<<<"b","o","n","j","o","u","r">>, <<"s","h","o","r","t"," ","s","e","n","t","e","n","c","e","s">>, <<"m","i","s","s","i","o","n">>>>, <<>>, <<<<"t","h","é">>>>, <<"A","1">>,
         NoScores, FALSE),
    \* a sentence of six words, one of its words, and a link to an earlier word
    Turn(<<"I","l"," ","f","a","i","t"," ","b","e","a","u"," ","e","t"," ","c","h","a","u","d"," ","i","c","i">>, <<>>,
         <<<<"i","l"," ","f","a","i","t"," ","b","e","a","u"," ","e","t"," ","c","h","a","u","d"," ","i","c","i">>, <<"c","h","a","u","d">>>>,
         <<Link(<<"i","l"," ","f","a","i","t"," ","b","e","a","u"," ","e","t"," ","c","h","a","u","d"," ","i","c","i">>, <<"b","o","n","j","o","u","r">>, "semantic")>>, <<<<"i","l"," ","f","a","i","t"," ","b","e","a","u"," ","e","t"," ","c","h","a","u","d"," ","i","c","i">>>>, <<"A","2">>,
         NoScores, FALSE) >>

\* ------------------------------------------------------------------------
\* conversation.py: _process_turn, a text message with MOCK_MODE off
\* ------------------------------------------------------------------------
\* mission_tasks and mission_progress of lines 630-637
MissionTasks(quality, n_accepted, turn_number) ==
  <<RLe(Pct(70), quality), n_accepted >= 2, turn_number >= 2>>

MissionProgress(tasks) ==
  LET done_count == Cardinality({k \in 1..Len(tasks) : tasks[k]})
  IN [done |-> done_count, total |-> 3, percent |-> (done_count * 100) \div 3]

\* dict.update
RECURSIVE Updated(_, _, _)
Updated(old, new, i) ==
  IF i > Len(new) THEN old
  ELSE Updated(Put(old, new[i].key, new[i].value), new, i + 1)

\* the record of a call of _strict_validate_units: its arguments and its result
GateRecord(user_text, corrected_form, raw_units, mission_hint, res) ==
  [called |-> TRUE, user_text |-> user_text,
   corrected_form |-> corrected_form, raw_units |-> raw_units,
   mission_hint |-> mission_hint,
   canonical_items |-> res.canonical_items,
   accepted |-> res.accepted, rejected |-> res.rejected,
   quality |-> res.quality]

GateCallOf(user_text, corrected_form, user_vocabulary, current_hint) ==
  GateRecord(user_text, corrected_form, user_vocabulary, current_hint,
             strict_validate_units(user_text, corrected_form, user_vocabulary, current_hint))

\* lines 596-614: the arguments _process_turn passes to _strict_validate_units
\* for a response and a mission hint, and what the call returns
GateCall(inp, current_hint) ==
  GateCallOf(IF inp.is_opener THEN <<>> ELSE inp.user_text,
             IF inp.is_opener THEN <<>> ELSE inp.corrected_form,
             IF inp.is_opener THEN <<>>
             ELSE IF inp.user_vocabulary = <<>> THEN extract_user_vocabulary(inp.user_text)
             ELSE inp.user_vocabulary,
             current_hint)

\* the mission hints a session of at most MaxTurns turns can hold: those of
\* build_mission_hint for each turn number and each of its two prefixes
Hints ==
  LET hints == [k \in 1..(2 * MaxTurns) |->
                  build_mission_hint(((k - 1) \div 2) + 1,
                                     IF k % 2 = 1 THEN <<"A","1">> ELSE <<"A","2">>)]
  IN SubSeq(hints, 1, 2 * MaxTurns)

HintIndex(hint) == CHOOSE h \in 1..Len(Hints) : Hints[h] = hint

\* _strict_validate_units is a pure function: its results on the calls of the
\* model, GateCalls[i][h] for the response TurnInputs[i] and the hint Hints[h]
GateCalls ==
  [i \in 1..Len(TurnInputs) |-> [h \in 1..Len(Hints) |-> GateCall(TurnInputs[i], Hints[h])]]

\* the SessionState object that session.py holds in _session_state
SessionStateNow ==
  [turn |-> turn, level |-> level, mastery_scores |-> mastery_scores,
   conversation_history |-> conversation_history,
   mission_state |-> mission_state, demo_complete |-> demo_complete]

\* SessionState(): the defaults of the model
NewSessionState ==
  [turn |-> 1, level |-> <<"A","1">>, mastery_scores |-> <<>>,
   conversation_history |-> <<>>, mission_state |-> InitialMissionState,
   demo_complete |-> FALSE]

\* lines 615-644: the ConversationTurn built for the LLM response inp, once
\* the gate has returned res, with the fields the handler sets on the response
TurnOf(state, inp, res) ==
  LET mission_tasks == MissionTasks(res.quality, Len(res.accepted), state.turn)
  IN [turn_number |-> state.turn, user_said |-> inp.user_text,
      response |->
        [corrected_form |-> res.corrected_form,
         reactivated_elements |-> inp.reactivated_elements,
         user_level_assessment |-> inp.user_level_assessment,
         mastery_scores |-> inp.mastery_scores,
         graph_links |-> inp.graph_links,
         user_vocabulary |-> Texts(res.accepted),
         validated_user_units |-> res.accepted \o res.rejected,
         quality_score |-> res.quality,
         next_mission_hint |-> build_mission_hint(state.turn, inp.user_level_assessment),
         mission_progress |-> MissionProgress(mission_tasks)]]

\* lines 645 and 653 alone: the turn is appended and counted, while level,
\* mastery scores and mission state are still those of the turn before
CommittedAppendOnly(state, inp, res) ==
  [state EXCEPT !.conversation_history = Append(@, TurnOf(state, inp, res)),
                !.turn = @ + 1]

\* the commit with the history cut to its last turn, as line 665 cuts the
\* diagnostics to their last 20 entries
CommittedKeepLast(state, inp, res) ==
  [state EXCEPT
     !.conversation_history = <<TurnOf(state, inp, res)>>,
     !.level = inp.user_level_assessment,
     !.mastery_scores = Updated(@, inp.mastery_scores, 1),
     !.turn = @ + 1]

\* CommittedTurn without the increment of the turn counter
CommittedTurnSameNumber(state, inp, conversation_turn, mission_tasks) ==
  [state EXCEPT
     !.conversation_history = Append(@, conversation_turn),
     !.level = inp.user_level_assessment,
     !.mastery_scores = Updated(@, inp.mastery_scores, 1),
     !.mission_state = [current_hint |-> conversation_turn.response.next_mission_hint,
                        tasks |-> mission_tasks,
                        done |-> conversation_turn.response.mission_progress.done,
                        total |-> conversation_turn.response.mission_progress.total,
                        percent |-> conversation_turn.response.mission_progress.percent]]

\* lines 645-663: the assignments to state, for the turn built and its tasks
CommittedTurn(state, inp, conversation_turn, mission_tasks) ==
  [state EXCEPT
     !.conversation_history = Append(@, conversation_turn),
     !.level = inp.user_level_assessment,
     !.mastery_scores = Updated(@, inp.mastery_scores, 1),
     !.mission_state = [current_hint |-> conversation_turn.response.next_mission_hint,
                        tasks |-> mission_tasks,
                        done |-> conversation_turn.response.mission_progress.done,
                        total |-> conversation_turn.response.mission_progress.total,
                        percent |-> conversation_turn.response.mission_progress.percent],
     !.turn = @ + 1]

\* lines 615-663: the SessionState object state after the turn of the LLM
\* response inp, once the gate has returned res
Committed(state, inp, res) ==
  CommittedTurn(state, inp, TurnOf(state, inp, res),
                MissionTasks(res.quality, Len(res.accepted), state.turn))

\* lines 480-728 for the LLM response inp, once the gate has returned res
CompleteTurn(inp, res) ==
  LET after == Committed(SessionStateNow, inp, res)
  IN /\ gate' = res
     /\ conversation_history' = after.conversation_history
     /\ level' = after.level
     /\ mastery_scores' = after.mastery_scores
     /\ mission_state' = after.mission_state
     /\ turn' = after.turn
     /\ UNCHANGED <<demo_complete, mock_mode, ws_vars, persist_vars, backboard, updates, call>>

\* the hint passed to the gate (lines 604-607)
CurrentHintOf(state, user_level_assessment) ==
  IF state.mission_state.current_hint # <<>> THEN state.mission_state.current_hint
  ELSE build_mission_hint(state.turn, user_level_assessment)

CurrentHint(inp) == CurrentHintOf(SessionStateNow, inp.user_level_assessment)

\* the turn of a text message whose LLM response is TurnInputs[i]
ProcessTurn(i) ==
  /\ turn <= MaxTurns
  /\ TurnInputs[i].user_text # <<>>
  /\ CompleteTurn(TurnInputs[i], GateCalls[i][HintIndex(CurrentHint(TurnInputs[i]))])

\* session.py: reset_session_state
ResetSession ==
  /\ turn' = 1
  /\ level' = <<"A","1">>
  /\ mastery_scores' = <<>>
  /\ conversation_history' = <<>>
  /\ mission_state' = InitialMissionState
  /\ demo_complete' = FALSE
  /\ UNCHANGED <<gate, mock_mode, ws_vars, persist_vars, backboard, updates, call>>

Next ==
  \/ \E i \in 1..Len(TurnInputs) : ProcessTurn(i)
  \/ ResetSession

Spec == Init /\ [][Next]_vars

\* ------------------------------------------------------------------------
\* Properties
\* ------------------------------------------------------------------------
\* the units the last call of the gate returned
GateUnits == gate.accepted \o gate.rejected

GateSourceText == normalize_text(gate.user_text)

GateCorrectedText ==
  IF gate.corrected_form # <<>> THEN normalize_text(gate.corrected_form) ELSE GateSourceText

\* the candidates of the last call of the gate, before they are grouped by key
GateCandidates ==
  CandidateItems(IF gate.raw_units # <<>> THEN gate.raw_units
                 ELSE extract_user_vocabulary(gate.user_text),
                 GateCorrectedText, GateSourceText)

\* C1: the list _canonicalize_candidates returns holds no two units with the
\* same canonical_key, and the gate returns exactly one validated unit
\* (accepted or rejected) for each distinct canonical_key of the candidates.
C1_OneUnitPerCanonicalKey ==
  gate.called =>
    /\ \A i, j \in 1..Len(gate.canonical_items) :
         gate.canonical_items[i].canonical_key = gate.canonical_items[j].canonical_key
           => i = j
    /\ ItemKeys(gate.canonical_items) = ItemKeys(GateCandidates)
    /\ \A key \in ItemKeys(GateCandidates) :
         Cardinality({k \in 1..Len(GateUnits) : GateUnits[k].canonical_key = key}) = 1
    /\ ItemKeys(GateUnits) = ItemKeys(GateCandidates)

\* the gate was called with candidates of which two have the same canonical_key
C1_Witness ==
  /\ gate.called
  /\ \E i, j \in 1..Len(GateCandidates) :
       i # j /\ GateCandidates[i].canonical_key = GateCandidates[j].canonical_key

\* the number of links of a list that touch a node
LinksAt(links, id) ==
  Cardinality({k \in 1..Len(links) : links[k].source = id \/ links[k].target = id})

LinkEnds(links) ==
  {links[k].source : k \in 1..Len(links)} \cup {links[k].target : k \in 1..Len(links)}

\* C2: in the list graph_links returns, no node id is an endpoint of more
\* than 4 links, whatever the history of the session.
C2_DegreeAtMostFour ==
  LET links == graph_links(conversation_history)
  IN \A id \in LinkEnds(links) : LinksAt(links, id) <= 4

\* the three strategies produced more than 4 links at one node, and the
\* greedy pass dropped links
C2_Witness ==
  LET merged == MergedLinks(conversation_history)
  IN /\ \E id \in LinkEnds(merged) : LinksAt(merged, id) > 4
     /\ Len(graph_links(conversation_history)) < Len(merged)

\* what GET /api/graph/nodes and GET /api/graph/links return for the session
SessionNodes == graph_nodes(conversation_history, turn, level, mastery_scores)

SessionLinks == graph_links(conversation_history)

\* unit_stats when the loops of graph_nodes end: the aggregates over all turns
SessionStats ==
  NodeTurns([nodes |-> <<>>, seen_ids |-> {}, unit_stats |-> <<>>],
            conversation_history, 1, turn, level, mastery_scores).unit_stats

\* the number of turns of the history that made graph_nodes count the text
Occurrences(word) == IF HasKey(SessionStats, word) THEN Get(SessionStats, word).count ELSE 0

\* C3: the mastery of every node is the mastery computed from the aggregates
\* over all the turns in which its unit was accepted: the mean of the
\* confidences of its occurrences, reuse_score = min(1, (occurrences - 1) / 4),
\* and the recency measured from the last turn in which it appeared.
C3_MasteryFromAllTurns ==
  LET nodes == SessionNodes
      stats == SessionStats
  IN \A k \in 1..Len(nodes) :
        nodes[k].mastery =
          NodeMastery(Get(stats, nodes[k].label),
                      IF StartsWith(Get(stats, nodes[k].label).canonical,
                                    <<"p","a","t","t","e","r","n",":">>)
                      THEN "pattern" ELSE "word",
                      nodes[k].label, turn, mastery_scores)

\* C4: every node graph_nodes returns has a mastery within [0.15, 1.0],
\* whatever the history, the turn counter and the externally reported scores.
C4_MasteryWithinBounds ==
  LET nodes == SessionNodes
  IN \A k \in 1..Len(nodes) :
        RLe(Pct(15), nodes[k].mastery) /\ RLe(nodes[k].mastery, R(1, 1))

\* a node whose text has an externally reported score outside [0, 1]
C4_Witness ==
  LET nodes == SessionNodes
  IN \E k \in 1..Len(nodes) :
        /\ HasKey(mastery_scores, nodes[k].label)
        /\ \/ RLt(Get(mastery_scores, nodes[k].label), R(0, 1))
           \/ RLt(R(1, 1), Get(mastery_scores, nodes[k].label))

\* the validated unit the last call of the gate returned for a canonical key
UnitOfKey(key) ==
  GateUnits[CHOOSE k \in 1..Len(GateUnits) : GateUnits[k].canonical_key = key]

\* the validated unit of the k-th canonical item of the last call of the gate
UnitAt(k) == UnitOfKey(gate.canonical_items[k].canonical_key)

\* the nine reasons of rejection, in the order of their rules
Taxonomy ==
  <<"incomplete_pattern", "too_broad", "too_short", "stop_word", "grammar_invalid",
    "low_confidence", "off_mission", "covered_by_pattern", "covered_by_chunk">>

\* a unit accepted before the k-th canonical item, of one of the kinds, whose
\* tokens include the tokens of the k-th
CoveredBefore(k, kinds) ==
  \E j \in 1..(k - 1) :
     /\ UnitAt(j).is_accepted
     /\ UnitAt(j).kind \in kinds
     /\ TokenSet(UnitAt(k).text) \subseteq TokenSet(UnitAt(j).text)

\* whether the condition of the r-th rule holds for the k-th canonical item of
\* the last call of the gate, whatever the other rules say
RuleHolds(r, k) ==
  LET u == UnitAt(k)
      early == u.kind \notin {"pattern", "sentence"}
      confidence == Confidence(u, GateCorrectedText, GateSourceText)
      relevance == MissionRelevance(u, mission_keywords(gate.mission_hint))
  IN CASE r = 1 -> early /\ u.kind = "chunk" /\ Str(u.text) \in INCOMPLETE_PATTERNS
       [] r = 2 -> /\ early /\ u.kind = "chunk"
                   /\ Cardinality(TokenSet(u.text)) >= 10
                   /\ ~StartsWith(u.canonical_key, <<"p","a","t","t","e","r","n",":">>)
       [] r = 3 -> early /\ Len(u.text) <= 1
       [] r = 4 -> early /\ Str(u.text) \in STOP_WORDS
       [] r = 5 -> /\ gate.corrected_form # <<>>
                   /\ ~InCorrected(u, GateCorrectedText)
                   /\ u.kind \in {"chunk", "word"}
       [] r = 6 -> RLt(confidence, Pct(60))
       [] r = 7 -> RLt(confidence, Pct(72)) /\ RLt(relevance, Pct(50))
       [] r = 8 -> /\ u.kind \in {"chunk", "word"}
                   /\ TokenSet(u.text) # {}
                   /\ CoveredBefore(k, {"pattern", "sentence"})
       [] r = 9 -> /\ u.kind = "word"
                   /\ CoveredBefore(k, {"pattern", "sentence", "chunk", "word"})
                   /\ RLt(relevance, Pct(95))

\* C5: the gate partitions the canonical units: each appears exactly once,
\* either accepted (is_accepted true, no reject_reason) or rejected
\* (is_accepted false, one reject_reason of the nine), and the reason of a
\* rejected unit is that of the first rule, in rule order, that rejects it.
C5_PartitionByFirstRejectingRule ==
  gate.called =>
    /\ Len(GateUnits) = Len(gate.canonical_items)
    /\ \A k \in 1..Len(gate.canonical_items) :
         Cardinality({m \in 1..Len(GateUnits) :
                        GateUnits[m].canonical_key = gate.canonical_items[k].canonical_key}) = 1
    /\ \A m \in 1..Len(gate.accepted) :
         gate.accepted[m].is_accepted /\ gate.accepted[m].reject_reason = NoReason
    /\ \A m \in 1..Len(gate.rejected) :
         /\ ~gate.rejected[m].is_accepted
         /\ \E r \in 1..Len(Taxonomy) : gate.rejected[m].reject_reason = Taxonomy[r]
    /\ \A k \in 1..Len(gate.canonical_items) :
         IF UnitAt(k).is_accepted
         THEN \A r \in 1..Len(Taxonomy) : ~RuleHolds(r, k)
         ELSE \E r \in 1..Len(Taxonomy) :
                /\ UnitAt(k).reject_reason = Taxonomy[r]
                /\ RuleHolds(r, k)
                /\ \A q \in 1..(r - 1) : ~RuleHolds(q, k)

\* the gate returned accepted and rejected units, and rejected a unit for
\* which a later rule holds as well
C5_Witness ==
  /\ gate.called
  /\ gate.accepted # <<>>
  /\ \E k \in 1..Len(gate.canonical_items) :
       \E r, q \in 1..Len(Taxonomy) :
          /\ UnitAt(k).reject_reason = Taxonomy[r]
          /\ r < q
          /\ RuleHolds(q, k)

\* C6: every unit of kind chunk or word whose text is one of the verb-stem
\* stubs is rejected with incomplete_pattern and never accepted.
C6_StubsRejected ==
  \A m \in 1..Len(GateUnits) :
     (GateUnits[m].kind \in {"chunk", "word"} /\ Str(GateUnits[m].text) \in INCOMPLETE_PATTERNS)
       => ~GateUnits[m].is_accepted /\ GateUnits[m].reject_reason = "incomplete_pattern"

\* C7: a chunk or word unit that no rule before the coverage rules rejects is
\* rejected with covered_by_pattern if and only if its token set is not empty
\* and is included in the token set of a pattern or sentence unit accepted
\* before it in the order of the canonical items.
C7_CoveredOnlyByEarlierAccepted ==
  gate.called =>
    \A k \in 1..Len(gate.canonical_items) :
       (UnitAt(k).kind \in {"chunk", "word"} /\ \A r \in 1..7 : ~RuleHolds(r, k))
         => (UnitAt(k).reject_reason = "covered_by_pattern"
               <=> /\ TokenSet(UnitAt(k).text) # {}
                   /\ \E j \in 1..(k - 1) :
                        /\ UnitAt(j).is_accepted
                        /\ UnitAt(j).kind \in {"pattern", "sentence"}
                        /\ TokenSet(UnitAt(k).text) \subseteq TokenSet(UnitAt(j).text))

\* the gate rejected a unit with covered_by_pattern, and in a turn of the
\* history a word was accepted whose tokens are tokens of a sentence or
\* pattern accepted in the same turn
C7_Witness ==
  /\ gate.called
  /\ \E m \in 1..Len(gate.rejected) : gate.rejected[m].reject_reason = "covered_by_pattern"
  /\ \E i \in 1..Len(conversation_history) :
       LET units == AcceptedUnits(conversation_history[i])
       IN \E a, b \in 1..Len(units) :
            /\ units[a].kind \in {"chunk", "word"}
            /\ units[b].kind \in {"pattern", "sentence"}
            /\ TokenSet(units[a].text) # {}
            /\ TokenSet(units[a].text) \subseteq TokenSet(units[b].text)

\* whether the correction penalty applies to a turn of the history
Penalised(t) ==
  /\ t.response.corrected_form # <<>>
  /\ normalize_text(t.response.corrected_form) # normalize_text(t.user_said)

\* C9: for a fixed number of canonical units and a fixed correction penalty,
\* k + 1 accepted units never give a lower quality than k accepted units.
C9_QualityMonotone ==
  /\ \A k \in 0..(Len(gate.canonical_items) - 1) :
       \A pen \in BOOLEAN :
          RLe(QualityScore(k, Len(gate.canonical_items), pen),
              QualityScore(k + 1, Len(gate.canonical_items), pen))
  /\ \A i, j \in 1..Len(conversation_history) :
       LET a == conversation_history[i]
           b == conversation_history[j]
       IN (/\ Len(a.response.validated_user_units) = Len(b.response.validated_user_units)
           /\ Penalised(a) = Penalised(b)
           /\ Len(AcceptedUnits(a)) <= Len(AcceptedUnits(b)))
            => RLe(a.response.quality_score, b.response.quality_score)

\* two turns of the history with the same number of units and the same
\* penalty, one with one more accepted unit than the other
C9_Witness ==
  \E i, j \in 1..Len(conversation_history) :
     LET a == conversation_history[i]
         b == conversation_history[j]
     IN /\ Len(a.response.validated_user_units) = Len(b.response.validated_user_units)
        /\ Penalised(a) = Penalised(b)
        /\ Len(AcceptedUnits(b)) = Len(AcceptedUnits(a)) + 1

\* C10: the quality of a turn is the clamp to [0, 1] of
\* (accepted / max(1, canonical units)) * 0.7, plus 0.3 if a unit is accepted,
\* minus 0.2 if a corrected form is present and differs from the normalised
\* utterance; it lies in [0, 1] and is 0 when no unit is accepted.
C10_QualityFormula ==
  gate.called =>
    LET ratio == R(Len(gate.accepted),
                   IF Len(gate.canonical_items) > 1 THEN Len(gate.canonical_items) ELSE 1)
        bonus == IF gate.accepted # <<>> THEN R(3, 10) ELSE R(0, 1)
        penalty == IF gate.corrected_form # <<>>
                      /\ normalize_text(gate.corrected_form) # normalize_text(gate.user_text)
                   THEN R(2, 10) ELSE R(0, 1)
        raw == RSub(RAdd(RMul(ratio, R(7, 10)), bonus), penalty)
        clamped == IF RLt(raw, R(0, 1)) THEN R(0, 1)
                   ELSE IF RLt(R(1, 1), raw) THEN R(1, 1) ELSE raw
    IN /\ gate.quality = clamped
       /\ RLe(R(0, 1), gate.quality) /\ RLe(gate.quality, R(1, 1))
       /\ gate.accepted = <<>> => gate.quality = R(0, 1)
       /\ \A i \in 1..Len(conversation_history) :
            /\ RLe(R(0, 1), conversation_history[i].response.quality_score)
            /\ RLe(conversation_history[i].response.quality_score, R(1, 1))

\* the gate accepted some units of a turn whose corrected form differs from
\* the utterance
C10_Witness ==
  /\ gate.called
  /\ gate.accepted # <<>>
  /\ gate.rejected # <<>>
  /\ gate.corrected_form # <<>>
  /\ normalize_text(gate.corrected_form) # normalize_text(gate.user_text)

\* the validated units of every turn of the history and of the last call of the gate
AllUnits ==
  {GateUnits[m] : m \in 1..Len(GateUnits)}
    \cup UNION {{conversation_history[i].response.validated_user_units[m] :
                   m \in 1..Len(conversation_history[i].response.validated_user_units)} :
                i \in 1..Len(conversation_history)}

\* C11: every validated unit the gate produces, accepted or rejected, has a
\* confidence within [0, 1] and a mission_relevance within [0, 1].
C11_ConfidenceAndRelevanceWithinBounds ==
  \A u \in AllUnits :
     /\ RLe(R(0, 1), u.confidence) /\ RLe(u.confidence, R(1, 1))
     /\ RLe(R(0, 1), u.mission_relevance) /\ RLe(u.mission_relevance, R(1, 1))

\* the gate accepted a unit and rejected a unit that share tokens with the
\* mission hint without holding all of its keywords
C11_Witness ==
  /\ gate.called
  /\ \E m \in 1..Len(gate.accepted) :
       /\ gate.accepted[m].kind \in {"chunk", "word"}
       /\ RLt(R(0, 1), gate.accepted[m].mission_relevance)
       /\ RLt(gate.accepted[m].mission_relevance, R(1, 1))
  /\ \E m \in 1..Len(gate.rejected) : RLt(R(0, 1), gate.rejected[m].mission_relevance)

\* the ids of a list of nodes
NodeIdSet(nodes) == {nodes[k].id : k \in 1..Len(nodes)}

\* whether a list of links holds a link between two nodes, in either direction
Linked(links, a, b) ==
  \E k \in 1..Len(links) : {links[k].source, links[k].target} = {a, b}

\* the graph_links entries the tutor declared in the turns of the history
Declared ==
  UNION {{conversation_history[i].response.graph_links[e] :
            e \in 1..Len(conversation_history[i].response.graph_links)} :
         i \in 1..Len(conversation_history)}

\* a declared entry whose ends are distinct and both among the ids
BetweenNodes(entry, ids) ==
  /\ to_id(entry.source) # to_id(entry.target)
  /\ to_id(entry.source) \in ids
  /\ to_id(entry.target) \in ids

\* C12, as stated: for every declared entry whose source and target are
\* distinct and both exist as nodes, graph_links returns a link between them.
C12_ExplicitLinksKept ==
  LET links == SessionLinks
      ids == NodeIdSet(SessionNodes)
  IN \A entry \in Declared :
        BetweenNodes(entry, ids) => Linked(links, to_id(entry.source), to_id(entry.target))

\* C12, amended: for every declared entry whose source and target are distinct
\* and both exist as nodes, graph_links returns a link between them unless
\* the degree cap dropped it: one of the two nodes then has 4 links.
C12_ExplicitLinksKeptUnlessCapped ==
  LET links == SessionLinks
      ids == NodeIdSet(SessionNodes)
  IN \A entry \in Declared :
        BetweenNodes(entry, ids) =>
          \/ Linked(links, to_id(entry.source), to_id(entry.target))
          \/ LinksAt(links, to_id(entry.source)) = 4
          \/ LinksAt(links, to_id(entry.target)) = 4

\* the tutor declared a link between two nodes that is returned, and another
\* one that is not
C12_Witness ==
  LET links == SessionLinks
      ids == NodeIdSet(SessionNodes)
  IN /\ \E entry \in Declared :
          BetweenNodes(entry, ids) /\ Linked(links, to_id(entry.source), to_id(entry.target))
     /\ \E entry \in Declared :
          BetweenNodes(entry, ids) /\ ~Linked(links, to_id(entry.source), to_id(entry.target))

\* the ids of the accepted units of the history
AcceptedIds ==
  UNION {{to_id(AcceptedUnits(conversation_history[i])[m].text) :
            m \in 1..Len(AcceptedUnits(conversation_history[i]))} :
         i \in 1..Len(conversation_history)}

FirstN(list, n) == SubSeq(list, 1, IF Len(list) < n THEN Len(list) ELSE n)

IdsOf(texts) == {to_id(texts[k]) : k \in 1..Len(texts)}

\* the links of type mission of a list of links
MissionLinks(links) ==
  {links[k] : k \in {m \in 1..Len(links) : links[m].relationship = "mission"}}

\* the turns of the history with a turn number
TurnsNumbered(n) ==
  {conversation_history[i] : i \in {m \in 1..Len(conversation_history) :
                                      conversation_history[m].turn_number = n}}

\* at most 4 of the links originate from each turn of the history
AtMostFourPerTurn(links) ==
  \A i \in 1..Len(conversation_history) :
     Cardinality({link \in links :
                    link.turn_introduced = conversation_history[i].turn_number}) <= 4

\* C15, as stated: every link of type mission connects one of the first two
\* reactivated elements of a turn to an accepted unit of that turn whose
\* mission_relevance is at least 0.55, and at most 4 such links originate
\* from one turn.
C15_MissionLinksToRelevantUnits ==
  LET mission_links == MissionLinks(SessionLinks)
  IN /\ \A link \in mission_links :
          \E t \in TurnsNumbered(link.turn_introduced) :
             /\ link.source \in IdsOf(FirstN(t.response.reactivated_elements, 2))
             /\ \E m \in 1..Len(AcceptedUnits(t)) :
                  /\ to_id(AcceptedUnits(t)[m].text) = link.target
                  /\ RLe(R(55, 100), AcceptedUnits(t)[m].mission_relevance)
     /\ AtMostFourPerTurn(mission_links)

\* whether an accepted unit of a turn with mission_relevance of at least 0.55
\* is left by the pedagogical filter
HasRelevantItem(t) ==
  LET AtLeastFloor(u) == RLe(R(55, 100), u.mission_relevance)
  IN pedagogical_items(Texts(SelectSeq(AcceptedUnits(t), AtLeastFloor))) # <<>>

\* C15, amended: every link of type mission connects one of the first two
\* reactivated elements the pedagogical filter leaves of a turn to an
\* accepted unit of that turn whose mission_relevance is at least 0.55 or,
\* when the filter leaves no such unit, to the first accepted unit it leaves;
\* at most 4 such links originate from one turn.
C15_MissionLinksToRelevantOrFirstUnit ==
  LET mission_links == MissionLinks(SessionLinks)
  IN /\ \A link \in mission_links :
          \E t \in TurnsNumbered(link.turn_introduced) :
             /\ link.source
                  \in IdsOf(FirstN(pedagogical_items(t.response.reactivated_elements), 2))
             /\ \E m \in 1..Len(AcceptedUnits(t)) :
                  /\ to_id(AcceptedUnits(t)[m].text) = link.target
                  /\ IF HasRelevantItem(t)
                     THEN RLe(R(55, 100), AcceptedUnits(t)[m].mission_relevance)
                     ELSE AcceptedUnits(t)[m].text
                            = pedagogical_items(Texts(AcceptedUnits(t)))[1]
     /\ AtMostFourPerTurn(mission_links)

\* a mission link of the list to a unit of its turn whose mission_relevance
\* is below 0.55 (below) or at least 0.55 (not below)
MissionLinkTo(mission_links, below) ==
  \E link \in mission_links :
     \E t \in TurnsNumbered(link.turn_introduced) :
        \E m \in 1..Len(AcceptedUnits(t)) :
           /\ to_id(AcceptedUnits(t)[m].text) = link.target
           /\ below = RLt(AcceptedUnits(t)[m].mission_relevance, R(55, 100))

\* graph_links returns a mission link to a unit whose mission_relevance is
\* below 0.55, and a mission link to a unit whose mission_relevance is not
C15_Witness ==
  LET mission_links == MissionLinks(SessionLinks)
  IN MissionLinkTo(mission_links, TRUE) /\ MissionLinkTo(mission_links, FALSE)

\* the kind of the accepted unit a node originates from: the unit with the
\* text of the node in the turn that introduced it
OriginKind(node) ==
  LET t == CHOOSE x \in TurnsNumbered(node.turn_introduced) : TRUE
      units == AcceptedUnits(t)
      first == CHOOSE m \in 1..Len(units) :
                 /\ norm_text(units[m].text) = norm_text(node.label)
                 /\ \A q \in 1..(m - 1) : norm_text(units[q].text) # norm_text(node.label)
  IN units[first].kind

\* the type the kind of a unit gives its node
TypeOfKind(kind) ==
  CASE kind = "pattern" -> "grammar"
    [] kind = "word" -> "vocab"
    [] kind \in {"chunk", "sentence"} -> "sentence"

\* C16: a node that originates from a pattern unit has type grammar, from a
\* word unit type vocab, and from a chunk or sentence unit type sentence.
C16_TypeFromKind ==
  LET nodes == SessionNodes
  IN \A k \in 1..Len(nodes) : nodes[k].type = TypeOfKind(OriginKind(nodes[k]))

\* the last call of the gate is that of the last turn of the history
GateOfLastTurn ==
  /\ gate.called
  /\ conversation_history # <<>>
  /\ conversation_history[Len(conversation_history)].response.validated_user_units = GateUnits
  /\ conversation_history[Len(conversation_history)].user_said = gate.user_text

\* the labels of the nodes introduced by the last turn of the history
LabelsOfLastTurn ==
  LET nodes == SessionNodes
  IN {nodes[k].label : k \in {m \in 1..Len(nodes) :
                                nodes[m].turn_introduced
                                  = conversation_history[Len(conversation_history)].turn_number}}

\* the vocabulary of scenario B
SplitGreeting == <<<<"ç","a"," ","v","a">>, <<"c","a">>, <<"v","a">>>>

\* C17, as stated: the vocabulary "ça va", "ca", "va" with no corrected form
\* yields one surviving unit, "ça va" of kind chunk; "ca" and "va" are not
\* accepted and are no nodes of the graph.
C17_GreetingIsOneChunk ==
  (GateOfLastTurn /\ gate.raw_units = SplitGreeting /\ gate.corrected_form = <<>>) =>
    /\ Len(gate.accepted) = 1
    /\ gate.accepted[1].text = <<"ç","a"," ","v","a">>
    /\ gate.accepted[1].kind = "chunk"
    /\ LabelsOfLastTurn \cap {<<"c","a">>, <<"v","a">>} = {}

\* C17, amended: the vocabulary "ça va", "ca", "va" with no corrected form
\* yields one surviving unit, "ça va" of kind pattern; "ca" and "va" are
\* rejected and are no nodes of the graph.
C17_GreetingIsOnePattern ==
  (GateOfLastTurn /\ gate.raw_units = SplitGreeting /\ gate.corrected_form = <<>>) =>
    /\ Len(gate.accepted) = 1
    /\ gate.accepted[1].text = <<"ç","a"," ","v","a">>
    /\ gate.accepted[1].kind = "pattern"
    /\ \A m \in 1..Len(gate.rejected) : gate.rejected[m].text \in {<<"c","a">>, <<"v","a">>}
    /\ Len(gate.rejected) = 2
    /\ LabelsOfLastTurn \cap {<<"c","a">>, <<"v","a">>} = {}
    /\ <<"ç","a"," ","v","a">> \in {SessionNodes[k].label : k \in 1..Len(SessionNodes)}

\* the last turn of the history had the vocabulary of scenario B
C17_Witness ==
  GateOfLastTurn /\ gate.raw_units = SplitGreeting /\ gate.corrected_form = <<>>

\* an utterance of one word: letters only, at least 2 of them, no stop word
OneWord(text) ==
  /\ Len(Strip(text)) >= 2
  /\ \A k \in 1..Len(Strip(text)) : Strip(text)[k] \in LatinLetters
  /\ Str(Lower(Strip(text))) \notin STOP_WORDS

RoundedPercent(n) == ((2 * n * 100) + 3) \div 6

\* C19: the mission progress of a turn is {done, total, percent} where done
\* is the number of true tasks among quality_score >= 0.7, accepted count >= 2
\* and turn count >= 2, total is 3 and percent is round(done / 3 * 100).
C19_ProgressPercentRounded ==
  \A i \in 1..Len(conversation_history) :
     LET t == conversation_history[i]
         tasks == <<RLe(R(7, 10), t.response.quality_score),
                    Len(AcceptedUnits(t)) >= 2,
                    t.turn_number >= 2>>
         n == Cardinality({k \in 1..3 : tasks[k]})
     IN /\ t.response.mission_progress.done = n
        /\ t.response.mission_progress.total = 3
        /\ t.response.mission_progress.percent = RoundedPercent(n)

\* the CEFR levels in their order
CefrLevels ==
  << <<"A","1">>, <<"A","1","+">>, <<"A","2">>, <<"A","2","+">>,
     <<"B","1">>, <<"B","1","+">>, <<"B","2">> >>

\* whether a level is at or above the second tier, A2
AtOrAboveA2(lvl) == \E k \in 3..Len(CefrLevels) : CefrLevels[k] = lvl

\* C20: the mission hint of turn t is the entry min(t, 5) of the list of five
\* missions, with the prefix "Mission A2+" for every level at or above A2
\* and the prefix "Mission A1-A2" for every level below it.
C20_HintByTurnAndTier ==
  \A i \in 1..Len(conversation_history) :
     LET t == conversation_history[i]
         position == IF t.turn_number < 5 THEN t.turn_number ELSE 5
     IN t.response.next_mission_hint =
          (IF AtOrAboveA2(t.response.user_level_assessment)
           THEN <<"M","i","s","s","i","o","n"," ","A","2","+">>
           ELSE <<"M","i","s","s","i","o","n"," ","A","1","-","A","2">>)
          \o <<":", " ">> \o missions[position]

\* ------------------------------------------------------------------------
\* mock_data.py: MOCK_CONVERSATION, the scripted conversation of mock mode
\* ------------------------------------------------------------------------
MOCK_CONVERSATION ==
  <<
    [turn_number |-> 1,
     user_said |-> <<"B","o","n","j","o","u","r">>,
     response |->
       [spoken_response |-> "Bonjour ! Comment tu t'appelles ?",
        translation_hint |-> "Hello! What is your name?",
        vocabulary_breakdown |-> <<[word |-> "comment", translation |-> "how/what", part_of_speech |-> "adverb"], [word |-> "tu", translation |-> "you (informal)", part_of_speech |-> "pronoun"], [word |-> "t'appelles", translation |-> "are called", part_of_speech |-> "verb (s'appeler)"]>>,
        new_elements |-> <<"comment", "tu t'appelles">>,
        reactivated_elements |-> <<<<"b","o","n","j","o","u","r">>>>,
        user_level_assessment |-> <<"A","1">>,
        border_update |-> "You can greet someone. Next: introduce yourself by name.",
        mastery_scores |->
        <<[key |-> <<"b","o","n","j","o","u","r">>, value |-> R(4, 5)],
          [key |-> <<"c","o","m","m","e","n","t">>, value |-> R(3, 10)],
          [key |-> <<"t","u"," ","t","'","a","p","p","e","l","l","e","s">>, value |-> R(1, 5)]>>,
        user_vocabulary |-> <<<<"b","o","n","j","o","u","r">>>>]],
    [turn_number |-> 2,
     user_said |-> <<"J","e"," ","m","'","a","p","p","e","l","l","e"," ","M","a","r","i","e">>,
     response |->
       [spoken_response |-> "Enchanté, Marie ! Tu habites où ?",
        translation_hint |-> "Nice to meet you, Marie! Where do you live?",
        vocabulary_breakdown |-> <<[word |-> "enchanté", translation |-> "nice to meet you", part_of_speech |-> "adjective"], [word |-> "habites", translation |-> "live", part_of_speech |-> "verb (habiter)"], [word |-> "où", translation |-> "where", part_of_speech |-> "adverb"]>>,
        new_elements |-> <<"enchanté", "tu habites", "où">>,
        reactivated_elements |-> <<<<"t","u"," ","t","'","a","p","p","e","l","l","e","s">>, <<"b","o","n","j","o","u","r">>>>,
        user_level_assessment |-> <<"A","1">>,
        border_update |-> "You can introduce yourself. Next: talk about where you live.",
        mastery_scores |->
        <<[key |-> <<"b","o","n","j","o","u","r">>, value |-> R(9, 10)],
          [key |-> <<"c","o","m","m","e","n","t">>, value |-> R(1, 2)],
          [key |-> <<"t","u"," ","t","'","a","p","p","e","l","l","e","s">>, value |-> R(3, 5)],
          [key |-> <<"j","e"," ","m","'","a","p","p","e","l","l","e">>, value |-> R(7, 10)],
          [key |-> <<"e","n","c","h","a","n","t","é">>, value |-> R(3, 10)],
          [key |-> <<"t","u"," ","h","a","b","i","t","e","s">>, value |-> R(1, 5)],
          [key |-> <<"o","ù">>, value |-> R(3, 10)]>>,
        user_vocabulary |-> <<<<"j","e"," ","m","'","a","p","p","e","l","l","e">>>>]],
    [turn_number |-> 3,
     user_said |-> <<"J","'","h","a","b","i","t","e"," ","à"," ","P","a","r","i","s">>,
     response |->
       [spoken_response |-> "Ah, Paris ! C'est une belle ville. Tu aimes Paris ?",
        translation_hint |-> "Ah, Paris! It's a beautiful city. Do you like Paris?",
        vocabulary_breakdown |-> <<[word |-> "c'est", translation |-> "it is", part_of_speech |-> "pronoun + verb"], [word |-> "belle", translation |-> "beautiful", part_of_speech |-> "adjective"], [word |-> "ville", translation |-> "city", part_of_speech |-> "noun"], [word |-> "aimes", translation |-> "like/love", part_of_speech |-> "verb (aimer)"]>>,
        new_elements |-> <<"c'est", "belle", "ville", "tu aimes">>,
        reactivated_elements |-> <<<<"t","u"," ","h","a","b","i","t","e","s">>, <<"o","ù">>>>,
        user_level_assessment |-> <<"A","1","+">>,
        border_update |-> "You can say where you live. Next: express preferences and opinions.",
        mastery_scores |->
        <<[key |-> <<"b","o","n","j","o","u","r">>, value |-> R(19, 20)],
          [key |-> <<"t","u"," ","t","'","a","p","p","e","l","l","e","s">>, value |-> R(3, 4)],
          [key |-> <<"j","e"," ","m","'","a","p","p","e","l","l","e">>, value |-> R(4, 5)],
          [key |-> <<"t","u"," ","h","a","b","i","t","e","s">>, value |-> R(3, 5)],
          [key |-> <<"j","'","h","a","b","i","t","e">>, value |-> R(7, 10)],
          [key |-> <<"o","ù">>, value |-> R(1, 2)],
          [key |-> <<"c","'","e","s","t">>, value |-> R(3, 10)],
          [key |-> <<"b","e","l","l","e">>, value |-> R(1, 4)],
          [key |-> <<"v","i","l","l","e">>, value |-> R(3, 10)],
          [key |-> <<"t","u"," ","a","i","m","e","s">>, value |-> R(1, 5)]>>,
        user_vocabulary |-> <<<<"j","'","h","a","b","i","t","e">>, <<"P","a","r","i","s">>>>]],
    [turn_number |-> 4,
     user_said |-> <<"O","u","i",","," ","j","'","a","i","m","e"," ","b","e","a","u","c","o","u","p"," ","P","a","r","i","s">>,
     response |->
       [spoken_response |-> "Moi aussi ! Qu'est-ce que tu aimes faire à Paris ?",
        translation_hint |-> "Me too! What do you like to do in Paris?",
        vocabulary_breakdown |-> <<[word |-> "moi aussi", translation |-> "me too", part_of_speech |-> "pronoun + adverb"], [word |-> "qu'est-ce que", translation |-> "what (question form)", part_of_speech |-> "interrogative"], [word |-> "faire", translation |-> "to do", part_of_speech |-> "verb (infinitive)"]>>,
        new_elements |-> <<"qu'est-ce que", "faire">>,
        reactivated_elements |-> <<<<"t","u"," ","a","i","m","e","s">>, <<"j","'","h","a","b","i","t","e">>, <<"b","o","n","j","o","u","r">>>>,
        user_level_assessment |-> <<"A","1","+">>,
        border_update |-> "You can express what you like. Next: describe activities and hobbies.",
        mastery_scores |->
        <<[key |-> <<"b","o","n","j","o","u","r">>, value |-> R(49, 50)],
          [key |-> <<"t","u"," ","t","'","a","p","p","e","l","l","e","s">>, value |-> R(4, 5)],
          [key |-> <<"j","e"," ","m","'","a","p","p","e","l","l","e">>, value |-> R(17, 20)],
          [key |-> <<"t","u"," ","h","a","b","i","t","e","s">>, value |-> R(7, 10)],
          [key |-> <<"j","'","h","a","b","i","t","e">>, value |-> R(4, 5)],
          [key |-> <<"t","u"," ","a","i","m","e","s">>, value |-> R(3, 5)],
          [key |-> <<"j","'","a","i","m","e">>, value |-> R(7, 10)],
          [key |-> <<"b","e","a","u","c","o","u","p">>, value |-> R(1, 2)],
          [key |-> <<"q","u","'","e","s","t","-","c","e"," ","q","u","e">>, value |-> R(1, 4)],
          [key |-> <<"f","a","i","r","e">>, value |-> R(1, 5)]>>,
        user_vocabulary |-> <<<<"j","'","a","i","m","e">>, <<"b","e","a","u","c","o","u","p">>>>]],
    [turn_number |-> 5,
     user_said |-> <<"J","'","a","i","m","e"," ","v","i","s","i","t","e","r"," ","l","e","s"," ","m","u","s","é","e","s"," ","e","t"," ","m","a","n","g","e","r"," ","d","e","s"," ","c","r","o","i","s","s","a","n","t","s">>,
     response |->
       [spoken_response |-> "Excellent ! Tu parles déjà très bien. Les musées de Paris sont magnifiques !",
        translation_hint |-> "Excellent! You already speak very well. The museums of Paris are magnificent!",
        vocabulary_breakdown |-> <<[word |-> "parles", translation |-> "speak", part_of_speech |-> "verb (parler)"], [word |-> "déjà", translation |-> "already", part_of_speech |-> "adverb"], [word |-> "très bien", translation |-> "very well", part_of_speech |-> "adverb"], [word |-> "magnifiques", translation |-> "magnificent", part_of_speech |-> "adjective"]>>,
        new_elements |-> <<"tu parles", "déjà", "magnifiques">>,
        reactivated_elements |-> <<<<"t","u"," ","a","i","m","e","s">>, <<"f","a","i","r","e">>, <<"b","e","l","l","e">>, <<"v","i","l","l","e">>>>,
        user_level_assessment |-> <<"A","2">>,
        border_update |-> "You can describe activities and preferences with detail. You've reached A2 U+2014 keep practicing!",
        mastery_scores |->
        <<[key |-> <<"b","o","n","j","o","u","r">>, value |-> R(1, 1)],
          [key |-> <<"t","u"," ","t","'","a","p","p","e","l","l","e","s">>, value |-> R(17, 20)],
          [key |-> <<"j","e"," ","m","'","a","p","p","e","l","l","e">>, value |-> R(9, 10)],
          [key |-> <<"t","u"," ","h","a","b","i","t","e","s">>, value |-> R(4, 5)],
          [key |-> <<"j","'","h","a","b","i","t","e">>, value |-> R(17, 20)],
          [key |-> <<"t","u"," ","a","i","m","e","s">>, value |-> R(3, 4)],
          [key |-> <<"j","'","a","i","m","e">>, value |-> R(4, 5)],
          [key |-> <<"f","a","i","r","e">>, value |-> R(1, 2)],
          [key |-> <<"v","i","s","i","t","e","r">>, value |-> R(3, 5)],
          [key |-> <<"m","u","s","é","e","s">>, value |-> R(1, 2)],
          [key |-> <<"t","u"," ","p","a","r","l","e","s">>, value |-> R(3, 10)],
          [key |-> <<"m","a","g","n","i","f","i","q","u","e","s">>, value |-> R(1, 4)]>>,
        user_vocabulary |-> <<<<"v","i","s","i","t","e","r">>, <<"m","u","s","é","e","s">>, <<"m","a","n","g","e","r">>, <<"c","r","o","i","s","s","a","n","t","s">>>>]]
  >>

\* openai_service.py: _FALLBACK_RESPONSE
FALLBACK_RESPONSE ==
  [spoken_response |-> "I hear you. Give me a short sentence about what you like.",
   translation_hint |-> "",
   corrected_form |-> <<>>,
   vocabulary_breakdown |-> <<>>,
   new_elements |-> <<>>,
   reactivated_elements |-> <<>>,
   user_level_assessment |-> <<"A","1">>,
   border_update |-> "",
   mastery_scores |-> <<>>,
   graph_links |-> <<>>,
   user_vocabulary |-> <<>>,
   validated_user_units |-> <<>>,
   corrections |-> <<>>,
   quality_score |-> R(55, 100),
   latency_ms |-> [stt |-> 0, llm |-> 0, total |-> 0],
   next_mission_hint |-> "Describe your favorite activity in one sentence.",
   mission_progress |-> [done |-> 0, total |-> 3, percent |-> 0]]

\* OpenAIService._mock_generate
mock_generate(turn_number) ==
  IF turn_number < 0 \/ turn_number >= Len(MOCK_CONVERSATION)
  THEN FALLBACK_RESPONSE
  ELSE MOCK_CONVERSATION[turn_number + 1].response

\* SpeechmaticsService._mock_transcribe
mock_transcribe(turn_number) ==
  IF turn_number < 0 \/ turn_number >= Len(MOCK_CONVERSATION)
  THEN <<>>
  ELSE MOCK_CONVERSATION[turn_number + 1].user_said

\* ------------------------------------------------------------------------
\* Calls of the functions of the pipeline, one call in each behaviour
\* ------------------------------------------------------------------------
\* the longest text passed to _normalize_text
MaxLen == 3
\* the longest list of candidates passed to the canonicaliser and to the gate
MaxUnits == 3
\* how far outside the script the turn index of generate_response goes
MaxOutside == 2

\* the characters of the texts passed to _normalize_text
NormalizeChars == {"A", "b", " ", "\t", RightSingleQuote, "'"}

\* the lists of at most n elements of a set
RECURSIVE ListsUpTo(_, _)
ListsUpTo(elements, n) ==
  IF n = 0 THEN {<<>>}
  ELSE LET shorter == ListsUpTo(elements, n - 1)
       IN shorter \cup {Append(l, e) : l \in shorter, e \in elements}

\* the candidates of the calls of the canonicaliser
CanonicalizeUnits ==
  {<<"ç","a"," ","v","a">>, <<"c","a"," ","v","a">>, <<"B","o","n","j","o","u","r">>,
   <<"m","e","r","c","i"," ","b","i","e","n">>}

\* the (corrected_text, source_text) of the calls of the canonicaliser
CanonicalizeTexts ==
  {<<<<>>, <<"b","o","n","j","o","u","r"," ","ç","a"," ","v","a">>>>,
   <<<<"j","e"," ","s","u","i","s"," ","c","o","n","t","e","n","t">>, <<"j","e"," ","s","u","i","s"," ","c","o","n","t","a","n","t">>>>}

\* the arguments of the calls of the gate
ValidateUserTexts == {<<>>, <<" ">>, <<"J","e"," ","s","u","i","s"," ","c","o","n","t","a","n","t">>}
ValidateCorrectedForms == {<<>>, <<"J","e"," ","s","u","i","s"," ","c","o","n","t","e","n","t">>}
ValidateUnits == {<<>>, <<"c","o","n","t","a","n","t">>, <<"j","e"," ","s","u","i","s"," ","c","o","n","t","e","n","t">>}
ValidateHints == {<<>>, InitialMissionState.current_hint}

NoCallYet == call = NoCall /\ ~gate.called

\* _normalize_text(value)
CallNormalize(value) ==
  /\ NoCallYet
  /\ call' = [op |-> "normalize_text", args |-> <<value>>, result |-> normalize_text(value)]
  /\ UNCHANGED <<session_vars, gate, mock_mode, ws_vars, persist_vars, service_vars>>

\* _canonicalize_candidates(raw_units, corrected_text, source_text)
CallCanonicalize(raw_units, corrected_text, source_text) ==
  /\ NoCallYet
  /\ call' = [op |-> "canonicalize_candidates",
              args |-> <<raw_units, corrected_text, source_text>>,
              result |-> canonicalize_candidates(raw_units, corrected_text, source_text)]
  /\ UNCHANGED <<session_vars, gate, mock_mode, ws_vars, persist_vars, service_vars>>

\* _strict_validate_units(user_text, corrected_form, raw_units, mission_hint)
CallValidate(user_text, corrected_form, raw_units, mission_hint) ==
  /\ NoCallYet
  /\ gate' = GateCallOf(user_text, corrected_form, raw_units, mission_hint)
  /\ UNCHANGED <<session_vars, call, mock_mode, ws_vars, persist_vars, service_vars>>

\* OpenAIService.generate_response(user_text, turn_number) in mock mode
CallGenerate(turn_number) ==
  /\ NoCallYet
  /\ mock_mode
  /\ call' = [op |-> "generate_response", args |-> <<turn_number>>,
              result |-> mock_generate(turn_number)]
  /\ UNCHANGED <<session_vars, gate, mock_mode, ws_vars, persist_vars, service_vars>>

CallInit == Started(TRUE)

CallNext ==
  \/ \E value \in ListsUpTo(NormalizeChars, MaxLen) : CallNormalize(value)
  \/ \E raw_units \in ListsUpTo(CanonicalizeUnits, MaxUnits), texts \in CanonicalizeTexts :
       CallCanonicalize(raw_units, texts[1], texts[2])
  \/ \E user_text \in ValidateUserTexts, corrected_form \in ValidateCorrectedForms,
        raw_units \in ListsUpTo(ValidateUnits, MaxUnits), mission_hint \in ValidateHints :
       CallValidate(user_text, corrected_form, raw_units, mission_hint)
  \/ \E turn_number \in (0 - MaxOutside)..(Len(MOCK_CONVERSATION) - 1 + MaxOutside) :
       CallGenerate(turn_number)

CallSpec == CallInit /\ [][CallNext]_vars

\* the longest list of candidates of the calls of the gate alone
MaxCandidates == 2

\* the candidates of the calls of the gate alone: a word of the utterance, a
\* word of the corrected form, a pattern, a sentence and a chunk found in
\* neither text, and a candidate of ten tokens
GateRawUnits ==
  {<<"c","o","n","t","a","n","t">>, <<"c","o","n","t","e","n","t">>,
   <<"j","e"," ","s","u","i","s"," ","c","o","n","t","e","n","t">>,
   <<"i","l"," ","f","a","i","t"," ","b","e","a","u">>,
   <<"f","a","i","t"," ","b","e","a","u">>,
   <<"a","b"," ","c","d"," ","e","f"," ","g","h"," ","i","j"," ","k","l"," ","m","n"," ","o","p"," ","q","r"," ","s","t">>}

GateNext ==
  \E user_text \in ValidateUserTexts, corrected_form \in ValidateCorrectedForms,
     raw_units \in ListsUpTo(GateRawUnits, MaxCandidates), mission_hint \in ValidateHints :
    CallValidate(user_text, corrected_form, raw_units, mission_hint)

GateSpec == CallInit /\ [][GateNext]_vars

\* C24: _strict_validate_units returns (accepted, rejected, quality) for every
\* utterance, corrected form and candidate list, the empty ones included: the
\* accepted units are accepted, the rejected ones carry a reason, every
\* canonical item is in one of the two lists and the quality is within [0, 1];
\* with an empty utterance, corrected form and candidate list it returns two
\* empty lists and quality 0.
C24_GateIsTotal ==
  gate.called =>
    /\ \A m \in 1..Len(gate.accepted) :
         gate.accepted[m].is_accepted /\ gate.accepted[m].reject_reason = NoReason
    /\ \A m \in 1..Len(gate.rejected) :
         ~gate.rejected[m].is_accepted /\ gate.rejected[m].reject_reason # NoReason
    /\ Len(gate.accepted) + Len(gate.rejected) = Len(gate.canonical_items)
    /\ RLe(R(0, 1), gate.quality) /\ RLe(gate.quality, R(1, 1))
    /\ (gate.user_text = <<>> /\ gate.corrected_form = <<>> /\ gate.raw_units = <<>>) =>
         (gate.accepted = <<>> /\ gate.rejected = <<>> /\ gate.quality = R(0, 1))

\* the gate was called with an empty utterance, corrected form and list
C24_Witness ==
  /\ gate.called
  /\ gate.user_text = <<>> /\ gate.corrected_form = <<>> /\ gate.raw_units = <<>>
  /\ gate.mission_hint # <<>>

\* the permutations of 1..n
IndexPermutations(n) == {p \in [1..n -> 1..n] : \A a, b \in 1..n : p[a] = p[b] => a = b}

\* the elements of a list
Range(list) == {list[k] : k \in 1..Len(list)}

\* C25: the set of units the canonicaliser returns is the same for every
\* permutation of the list of raw candidates, with the corrected text and the
\* utterance fixed.
C25_CanonicalSetIgnoresOrder ==
  call.op = "canonicalize_candidates" =>
    \A p \in IndexPermutations(Len(call.args[1])) :
       Range(canonicalize_candidates([k \in 1..Len(call.args[1]) |-> call.args[1][p[k]]],
                                     call.args[2], call.args[3]))
         = Range(call.result)

\* the canonicaliser was called with three different candidates, two of
\* which have the same canonical key
C25_Witness ==
  /\ call.op = "canonicalize_candidates"
  /\ Len(call.args[1]) = 3
  /\ Cardinality(Range(call.args[1])) = 3
  /\ Len(call.result) = 2

\* C26: _normalize_text(_normalize_text(x)) = _normalize_text(x) for every x.
C26_NormalizeIdempotent ==
  call.op = "normalize_text" =>
    /\ normalize_text(call.result) = call.result
    /\ normalize_text(normalize_text(call.args[1])) = normalize_text(call.args[1])

\* _normalize_text was called with a text that it changes into a text with
\* a space
C26_Witness ==
  /\ call.op = "normalize_text"
  /\ call.result # call.args[1]
  /\ \E k \in 1..Len(call.result) : call.result[k] = " "

\* C29: in mock mode, generate_response for a turn index outside the script
\* returns the empty default response, and for an index inside the script
\* the scripted response of that turn.
C29_MockResponseOrEmptyDefault ==
  call.op = "generate_response" =>
    IF call.args[1] < 0 \/ call.args[1] >= Len(MOCK_CONVERSATION)
    THEN /\ call.result.spoken_response = ""
         /\ call.result.translation_hint = ""
         /\ call.result.vocabulary_breakdown = <<>>
         /\ call.result.new_elements = <<>>
         /\ call.result.reactivated_elements = <<>>
         /\ call.result.user_level_assessment = <<"A","1">>
         /\ call.result.border_update = ""
         /\ call.result.mastery_scores = <<>>
    ELSE call.result = MOCK_CONVERSATION[call.args[1] + 1].response

\* ------------------------------------------------------------------------
\* backboard_service.py: BackboardService in mock mode
\* ------------------------------------------------------------------------
\* float("nan"): every comparison with it is false
NaN == [num |-> 0, den |-> 0]

\* the clamp of _mock_update_mastery without its upper bound
ClampScoreFloorOnly(value) == RMax(R(0, 1), value)

\* max(0.0, min(1.0, float(value)))
ClampScore(value) == RMax(R(0, 1), RMin(R(1, 1), value))

\* _mock_update_mastery that replaces the dictionary by the clamped scores
mock_update_masteryReplace(stored, scores, i) ==
  [k \in 1..Len(scores) |->
     [key |-> scores[k].key, value |-> ClampScore(scores[k].value)]]

\* BackboardService._mock_update_mastery: the loop over scores.items()
RECURSIVE mock_update_mastery(_, _, _)
mock_update_mastery(stored, scores, i) ==
  IF i > Len(scores) THEN stored
  ELSE mock_update_mastery(Put(stored, scores[i].key, ClampScore(scores[i].value)),
                           scores, i + 1)

\* BackboardService._mock_update_profile
mock_update_profile(profile, user_level, turn_number, border_update) ==
  [profile EXCEPT !.level = user_level, !.total_turns = turn_number,
                  !.border_update = border_update]

\* BackboardService.get_mastery and get_profile: copies of the two dictionaries
get_mastery == backboard.mastery_scores
get_profile == backboard.learner_profile

\* the most calls a client makes to the service
MaxCalls == 3

\* the scores a client passes to update_mastery
ScoreKeys == {<<"b","o","n","j","o","u","r">>, <<"m","e","r","c","i">>}
ScoreValues == {R(-1, 2), R(3, 10), R(3, 2), NaN}
ScoreDicts ==
  {<<[key |-> k, value |-> v]>> : k \in ScoreKeys, v \in ScoreValues}
    \cup {<<[key |-> <<"m","e","r","c","i">>, value |-> R(7, 10)],
           [key |-> <<"b","o","n","j","o","u","r">>, value |-> R(-2, 1)]>>}

\* await service.update_mastery(scores)
UpdateMastery(scores) ==
  /\ Len(updates) < MaxCalls
  /\ backboard' = [backboard EXCEPT
                     !.mastery_scores = mock_update_mastery(@, scores, 1)]
  /\ updates' = Append(updates, [op |-> "update_mastery", scores |-> scores])
  /\ UNCHANGED <<session_vars, gate, mock_mode, ws_vars, persist_vars, call>>

\* await service.update_profile(level, turn, border_update)
UpdateProfile(user_level, turn_number, border_update) ==
  /\ Len(updates) < MaxCalls
  /\ backboard' = [backboard EXCEPT
                     !.learner_profile =
                        mock_update_profile(@, user_level, turn_number, border_update)]
  /\ updates' = Append(updates, [op |-> "update_profile", level |-> user_level,
                                 turn |-> turn_number, border_update |-> border_update])
  /\ UNCHANGED <<session_vars, gate, mock_mode, ws_vars, persist_vars, call>>

\* await service.reset()
BackboardReset ==
  /\ Len(updates) < MaxCalls
  /\ backboard' = NewBackboard
  /\ updates' = Append(updates, [op |-> "reset"])
  /\ UNCHANGED <<session_vars, gate, mock_mode, ws_vars, persist_vars, call>>

BackboardInit == Started(TRUE)

BackboardNext ==
  \/ \E scores \in ScoreDicts : UpdateMastery(scores)
  \/ \E n \in 1..2 :
       UpdateProfile(MOCK_CONVERSATION[n + 2].response.user_level_assessment, n,
                     MOCK_CONVERSATION[n + 2].response.border_update)
  \/ BackboardReset

BackboardSpec == BackboardInit /\ [][BackboardNext]_vars

\* a score within [0.0, 1.0]
InUnitInterval(value) ==
  value.den > 0 /\ RLe(R(0, 1), value) /\ RLe(value, R(1, 1))

\* C27: after any sequence of update_mastery calls, with values below 0 and
\* above 1 among them, and reset calls, every score get_mastery returns is
\* within [0.0, 1.0].
C27_ScoresWithinUnitInterval ==
  \A k \in 1..Len(get_mastery) : InUnitInterval(get_mastery[k].value)

\* the calls made since the last reset
SinceReset ==
  LET resets == {k \in 1..Len(updates) : updates[k].op = "reset"}
      last == IF resets = {} THEN 0 ELSE CHOOSE k \in resets : \A m \in resets : m <= k
  IN SubSeq(updates, last + 1, Len(updates))

\* the values passed for a key by the calls of a list, in their order
RECURSIVE ValuesFor(_, _)
ValuesFor(calls, key) ==
  IF calls = <<>> THEN <<>>
  ELSE LET first == calls[1]
           here == IF first.op = "update_mastery"
                   THEN SelectSeq(first.scores, LAMBDA e : e.key = key)
                   ELSE <<>>
       IN [k \in 1..Len(here) |-> here[k].value] \o ValuesFor(Tail(calls), key)

\* get_mastery holds a score above 0 and below 1 for a key, one that was
\* passed as more than 1 and one that was passed as less than 0
C27_Witness ==
  LET calls == SinceReset
  IN /\ \E k \in 1..Len(get_mastery) :
          LET passed == ValuesFor(calls, get_mastery[k].key)
          IN RLt(R(1, 1), passed[Len(passed)])
     /\ \E k \in 1..Len(get_mastery) :
          LET passed == ValuesFor(calls, get_mastery[k].key)
          IN passed[Len(passed)].den > 0 /\ RLt(passed[Len(passed)], R(0, 1))

\* a value brought within [0.0, 1.0]
Clamped(value) ==
  IF RLt(value, R(0, 1)) THEN R(0, 1) ELSE IF RLt(R(1, 1), value) THEN R(1, 1) ELSE value

\* C28: get_mastery maps each key updated since the last reset to the clamped
\* value of its most recent update, and holds no other key; the profile is
\* that of the most recent update_profile since the last reset, or the
\* defaults (level A1, total_turns 0, empty border_update).
C28_LastWriteWinsUntilReset ==
  LET calls == SinceReset
      profiles == SelectSeq(calls, LAMBDA c : c.op = "update_profile")
  IN /\ \A key \in ScoreKeys :
          LET passed == ValuesFor(calls, key)
              stored == SelectSeq(get_mastery, LAMBDA e : e.key = key)
          IN IF passed = <<>> THEN stored = <<>>
             ELSE /\ Len(stored) = 1
                  /\ IF passed[Len(passed)] = NaN
                     THEN InUnitInterval(stored[1].value)
                     ELSE stored[1].value = Clamped(passed[Len(passed)])
     /\ \A k \in 1..Len(get_mastery) : get_mastery[k].key \in ScoreKeys
     /\ get_profile =
          IF profiles = <<>> THEN [level |-> <<"A","1">>, total_turns |-> 0, border_update |-> ""]
          ELSE [level |-> profiles[Len(profiles)].level,
                total_turns |-> profiles[Len(profiles)].turn,
                border_update |-> profiles[Len(profiles)].border_update]

\* a key was updated, the service was reset and another key was updated: the
\* first key is not returned
C28_Witness ==
  /\ Len(updates) = 3
  /\ updates[1].op = "update_mastery"
  /\ updates[2].op = "reset"
  /\ updates[3].op = "update_mastery"
  /\ \A k \in 1..Len(updates[3].scores) : updates[3].scores[k].key # updates[1].scores[1].key
  /\ Len(get_mastery) = 1

\* ------------------------------------------------------------------------
\* conversation.py: conversation_ws and _process_turn, from one await to the
\* next; session.py: the reset and switch-profile requests
\* ------------------------------------------------------------------------
\* an entry of user_vocabulary that is not a string (JSON null)
NoneEntry == <<None>>

\* the responses of the LLM to the text messages of the model: indices of TurnInputs
WsTurns == {3}

\* the most turns a session holds before the model stops sending messages
MaxWsTurns == 2

\* the content of a message: 0 is the empty content
Content(i) == IF i = 0 THEN <<>> ELSE TurnInputs[i].user_text

\* the text messages a client sends with MOCK_MODE off
WsMessages ==
  {[type |-> "text", input |-> i,
    is_opener |-> IF i = 0 THEN FALSE ELSE TurnInputs[i].is_opener] :
     i \in WsTurns \cup {0}}

\* the messages a client sends with MOCK_MODE on: the content is not read
MockMessages ==
  {[type |-> t, input |-> 0, is_opener |-> FALSE] : t \in {"text", "audio"}}

\* TutorResponse(**response_data) for the scripted response of a turn index
MockTurn(turn_index, is_opener) ==
  LET response == mock_generate(turn_index)
  IN Turn(mock_transcribe(turn_index), <<>>, response.user_vocabulary, <<>>,
          response.reactivated_elements, response.user_level_assessment,
          response.mastery_scores, is_opener)

\* the hint the gate gets for the scripted turn k when the turns are
\* processed one after the other
MockHint(k) ==
  IF k = 1 THEN InitialMissionState.current_hint
  ELSE build_mission_hint(k - 1, MOCK_CONVERSATION[k - 1].response.user_level_assessment)

\* _strict_validate_units is a pure function: its results on the calls of a
\* scripted conversation
MockGateCalls ==
  [k \in 1..Len(MOCK_CONVERSATION) |->
     [o \in BOOLEAN |-> GateCall(MockTurn(k - 1, o), MockHint(k))]]

\* response_data of lines 586-593 for a message: the scripted response of the
\* turn index, or the response the model gives to the text of the message
ResponseOf(message, turn_index) ==
  IF mock_mode THEN MockTurn(turn_index, message.is_opener)
  ELSE TurnInputs[message.input]

\* the result of the gate for the response inp and the hint: looked up among
\* the calls computed once, or computed
GateWithHint(message, turn_index, inp, hint) ==
  IF /\ mock_mode
     /\ turn_index + 1 \in 1..Len(MOCK_CONVERSATION)
     /\ hint = MockHint(turn_index + 1)
  THEN MockGateCalls[turn_index + 1][message.is_opener]
  ELSE IF ~mock_mode /\ \E h \in 1..Len(Hints) : Hints[h] = hint
  THEN GateCalls[message.input][HintIndex(hint)]
  ELSE GateCall(inp, hint)

\* the call of the gate of lines 609-614 for a message, its response inp and
\* the object state
GateOfTurn(state, message, turn_index, inp) ==
  GateWithHint(message, turn_index, inp,
               CurrentHintOf(state, inp.user_level_assessment))

\* the SessionState object a reference stands for: 0 is the object that
\* _session_state holds, k > 0 is orphans[k]
StateOf(state_ref) == IF state_ref = 0 THEN SessionStateNow ELSE orphans[state_ref]

\* SessionAfter with every assignment made to the object _session_state holds
SessionAfterAlways(state_ref, after) == after

\* _session_state after an assignment to the fields of the object state_ref
SessionAfter(state_ref, after) == IF state_ref = 0 THEN after ELSE SessionStateNow

\* the replaced objects after an assignment to the fields of the object state_ref
OrphansAfter(state_ref, after) ==
  IF state_ref = 0 THEN orphans ELSE [orphans EXCEPT ![state_ref] = after]

\* the replaced objects that a turn in flight or a task refers to
Referenced(cs, ts) ==
  ({cs[c].state_ref : c \in {d \in Conns : cs[d].pc # "receive"}}
     \cup {ts[k].state_ref : k \in 1..Len(ts)}) \ {0}

\* the place of the object r among the objects refs, in their order
Place(refs, r) == Cardinality({q \in refs : q <= r})

\* the reference r once the objects outside refs are gone
Renumbered(refs, r) == IF r \in refs THEN Place(refs, r) ELSE 0

\* the objects refs of os, renumbered, and the connections and tasks with the
\* new references
Kept(cs, ts, os, refs) ==
  [conns |-> [c \in Conns |-> [cs[c] EXCEPT !.state_ref = Renumbered(refs, @)]],
   background_tasks |->
     [k \in 1..Len(ts) |-> [ts[k] EXCEPT !.state_ref = Renumbered(refs, @)]],
   orphans |->
     [k \in 1..Cardinality(refs) |-> os[CHOOSE r \in refs : Place(refs, r) = k]]]

\* the objects nobody refers to are garbage: the others, renumbered
Collected(cs, ts, os) == Kept(cs, ts, os, Referenced(cs, ts))

\* the variables of the process become: now the fields of _session_state, and
\* the connections, tasks and replaced objects of kept
Installed(now, kept) ==
  /\ turn' = now.turn
  /\ level' = now.level
  /\ mastery_scores' = now.mastery_scores
  /\ conversation_history' = now.conversation_history
  /\ mission_state' = now.mission_state
  /\ demo_complete' = now.demo_complete
  /\ conns' = kept.conns
  /\ background_tasks' = kept.background_tasks
  /\ orphans' = kept.orphans

\* the objects of the process become: now the fields of _session_state, cs
\* the connections, ts the tasks, os the replaced objects
Install(now, cs, ts, os) == Installed(now, Collected(cs, ts, os))

\* a reply sent on the connection
Reply(type) == [type |-> type]
Status(step) == [type |-> "status", step |-> step]

\* the replies to a message, once the handler went back to receive_text
Answered(c, replies) == [conn |-> c, replies |-> replies]

\* lines 431-448: a message that is not JSON, or whose type is neither text
\* nor audio, is answered with an error
ReceiveInvalid(c) ==
  /\ conns[c].pc = "receive"
  /\ answered' = Answered(c, <<Reply("error")>>)
  /\ UNCHANGED <<session_vars, gate, mock_mode, conns, orphans, background_tasks,
                 persist_vars, service_vars, call>>

\* line 502: _backboard_service.set_language(target_language). The method is
\* not in the revision of backboard_service.py among the sources; as the
\* set_language of the three other services does, it is taken to keep the
\* language for later calls and to leave scores and profile as they are.
set_language(service, language) == service

\* lines 431-574: a text or audio message is received; the handler runs to
\* its first await in _process_turn, or to its answer. Of the set_language
\* calls of lines 500-503 the model keeps the one on the Backboard service.
Receive(c, message) ==
  /\ conns[c].pc = "receive"
  /\ mock_mode \/ turn <= MaxWsTurns
  /\ LET state == SessionStateNow
         turn_index == state.turn - 1
         user_text == IF mock_mode THEN mock_transcribe(turn_index)
                      ELSE Content(message.input)
     IN IF state.demo_complete
        THEN /\ answered' = Answered(c, <<Reply("demo_complete")>>)
             /\ UNCHANGED conns
        ELSE IF message.type = "audio"
        THEN /\ conns' = [conns EXCEPT ![c] =
                           [IdleConn EXCEPT !.pc = "stt", !.message = message,
                                            !.turn_index = turn_index,
                                            !.replies = <<Status("transcribing")>>]]
             /\ answered' = NoAnswer
        ELSE IF user_text = <<>>
        THEN /\ answered' = Answered(c, <<Reply("error")>>)
             /\ UNCHANGED conns
        ELSE /\ conns' = [conns EXCEPT ![c] =
                           [IdleConn EXCEPT !.pc = "llm", !.message = message,
                                            !.turn_index = turn_index,
                                            !.user_text = user_text,
                                            !.replies = <<Status("thinking")>>]]
             /\ answered' = NoAnswer
  /\ backboard' = IF demo_complete THEN backboard ELSE set_language(backboard, "fr")
  /\ UNCHANGED <<session_vars, gate, mock_mode, orphans, background_tasks,
                 persist_vars, updates, call>>

\* line 520 without its test: only an exception ends the turn
NotRecognizedOnRaise(outcome, user_text) == outcome = "raises"

\* lines 512-521: transcribe raised, or the text is empty (if not user_text)
NotRecognized(outcome, user_text) == outcome = "raises" \/ user_text = <<>>

\* lines 512-574: transcribe returns the words, returns no words, or raises
SttReturns(c, outcome) ==
  /\ conns[c].pc = "stt"
  /\ mock_mode => outcome = "words"
  /\ LET conn == conns[c]
         user_text == IF mock_mode THEN mock_transcribe(conn.turn_index)
                      ELSE IF outcome = "words" THEN Content(conn.message.input)
                      ELSE <<>>
         failed == NotRecognized(outcome, user_text)
         cs == [conns EXCEPT ![c] =
                  IF failed THEN IdleConn
                  ELSE [conn EXCEPT !.pc = "llm", !.user_text = user_text,
                                    !.replies = Append(@, Status("thinking"))]]
     IN /\ Install(SessionStateNow, cs, background_tasks, orphans)
        /\ answered' = IF failed THEN Answered(c, Append(conn.replies, Reply("error")))
                       ELSE answered
  /\ UNCHANGED <<gate, mock_mode, persist_vars, service_vars, call>>

\* the row save_session writes for a session (supabase holds, for each
\* profile, the rows load_session finds: none or one)
SavedSession(state) ==
  [conversation_history |-> state.conversation_history,
   mastery_scores |-> state.mastery_scores,
   level |-> state.level, turn |-> state.turn]

\* session.py: _save_current_session, for the object _session_state holds;
\* saved is false when save_session raises
SaveCurrentSession(now, saved) ==
  IF current_profile_id # None /\ saved
  THEN [supabase EXCEPT ![current_profile_id] = <<SavedSession(now)>>]
  ELSE supabase

\* TutorResponse(**response_data) raises a ValidationError for an entry of
\* user_vocabulary that is not a string
ValidTutorResponse(response_data) ==
  \A k \in 1..Len(response_data.user_vocabulary) :
     response_data.user_vocabulary[k] # NoneEntry

\* the response of the LLM to a message: TurnInputs, or the same with a
\* null among the entries of user_vocabulary
ResponseData(inp, malformed) ==
  IF malformed THEN [inp EXCEPT !.user_vocabulary = Append(@, NoneEntry)] ELSE inp

\* the test of lines 669-670 with >= in the place of >, one turn early
ExhaustsScriptEarly(state) == mock_mode /\ state.turn >= Len(MOCK_CONVERSATION)

\* lines 669-670: the turn that was committed to state exhausted the script
ExhaustsScript(state) == mock_mode /\ state.turn > Len(MOCK_CONVERSATION)

\* lines 669-670: demo_complete is set on the object the turn was committed to
DemoCompleteSet(committed) ==
  [committed EXCEPT !.demo_complete = IF ExhaustsScript(committed) THEN TRUE ELSE @]

\* lines 667-693: the session is saved and turn_response is sent; after is the
\* object of the handler after the commit, turn_number the number of the turn
TurnSent(c, conn, inp, saved, turn_number, after) ==
  /\ supabase' = SaveCurrentSession(SessionAfter(conn.state_ref, after), saved)
  /\ Install(SessionAfter(conn.state_ref, after),
             [conns EXCEPT ![c] =
                [conn EXCEPT
                   !.pc = "tts",
                   !.tutor_response =
                      [mastery_scores |-> inp.mastery_scores,
                       user_level_assessment |-> inp.user_level_assessment,
                       border_update |-> IF mock_mode
                                         THEN mock_generate(conn.turn_index).border_update
                                         ELSE ""],
                   !.replies =
                      Append(@, [type |-> "turn_response", turn_number |-> turn_number,
                                 session |-> [turn |-> after.turn, level |-> after.level,
                                              demo_complete |-> after.demo_complete]])]],
             background_tasks,
             OrphansAfter(conn.state_ref, after))
  /\ UNCHANGED answered

\* lines 596-693: the gate has returned res; the turn is committed to the
\* object state the handler holds
TurnCommitted(c, conn, state, inp, saved, res) ==
  /\ gate' = res
  /\ TurnSent(c, conn, inp, saved, state.turn, DemoCompleteSet(Committed(state, inp, res)))

\* lines 593-693 for the response inp of the LLM and the object state the
\* handler holds: the response is refused by TutorResponse, or the gate is
\* called and the turn committed
ResponseHandled(c, conn, state, inp, malformed, saved) ==
  IF ~ValidTutorResponse(ResponseData(inp, malformed))
  THEN /\ Install(SessionStateNow, [conns EXCEPT ![c] = IdleConn],
                  background_tasks, orphans)
       /\ answered' = Answered(c, Append(conn.replies, Reply("error")))
       /\ UNCHANGED <<gate, supabase>>
  ELSE TurnCommitted(c, conn, state, inp, saved,
                     GateOfTurn(state, conn.message, conn.turn_index, inp))

\* lines 586-693: generate_response_streaming returns; the response is
\* validated, the gate is called, the turn is committed to the object the
\* handler holds, the session is saved and turn_response is sent
LlmReturns(c, malformed, saved) ==
  /\ conns[c].pc = "llm"
  /\ mock_mode => ~malformed
  /\ (current_profile_id = None \/ malformed) => ~saved
  /\ ResponseHandled(c, conns[c], StateOf(conns[c].state_ref),
                     ResponseOf(conns[c].message, conns[c].turn_index),
                     malformed, saved)
  /\ UNCHANGED <<mock_mode, current_profile_id, service_vars, call>>

\* the outcomes of lines 696-706: synthesis gives audio, gives the browser
\* mode (MOCK_MODE on, or no provider answered), or an exception is raised
TtsOutcomes == {"audio", "browser", "raises"}

\* lines 707 and 711: the tts message, with the result of the synthesis or
\* with the browser fallback of the except branch
TtsMessage(outcome) ==
  [type |-> "tts", mode |-> IF outcome = "audio" THEN "audio" ELSE "browser"]

\* lines 696-707 without the except branch of lines 708-711
TtsRepliesUnlessRaised(replies, outcome) ==
  IF outcome = "raises" THEN replies ELSE Append(replies, TtsMessage(outcome))

\* lines 696-711: the messages of the handler once the tts message is sent
TtsReplies(replies, outcome) == Append(replies, TtsMessage(outcome))

\* lines 696-727: the tts message is sent, with the audio or with the browser
\* fallback, and the Backboard update is left to a task
TtsDone(c, outcome) ==
  /\ conns[c].pc = "tts"
  /\ outcome \in TtsOutcomes
  /\ mock_mode => outcome = "browser"
  /\ LET conn == conns[c]
     IN /\ Install(SessionStateNow, [conns EXCEPT ![c] = IdleConn],
                   Append(background_tasks,
                          [state_ref |-> conn.state_ref,
                           tutor_response |-> conn.tutor_response]),
                   orphans)
        /\ answered' = Answered(c, TtsReplies(conn.replies, outcome))
  /\ UNCHANGED <<gate, mock_mode, persist_vars, service_vars, call>>

\* lines 714-723: _background_backboard runs; done counts the calls that
\* returned before one raised (with MOCK_MODE on none raises)
BackgroundBackboard(k, done) ==
  /\ k \in 1..Len(background_tasks)
  /\ mock_mode => k = 1 /\ done = 2
  /\ LET task == background_tasks[k]
         state == StateOf(task.state_ref)
         scores == IF done >= 1
                   THEN mock_update_mastery(backboard.mastery_scores,
                                            task.tutor_response.mastery_scores, 1)
                   ELSE backboard.mastery_scores
         profile == IF done >= 2
                    THEN mock_update_profile(backboard.learner_profile,
                                             task.tutor_response.user_level_assessment,
                                             state.turn - 1,
                                             task.tutor_response.border_update)
                    ELSE backboard.learner_profile
     IN /\ backboard' = [mastery_scores |-> scores, learner_profile |-> profile]
        /\ Install(SessionStateNow, conns,
                   SubSeq(background_tasks, 1, k - 1)
                     \o SubSeq(background_tasks, k + 1, Len(background_tasks)),
                   orphans)
  /\ UNCHANGED <<gate, mock_mode, answered, persist_vars, updates, call>>

\* reset_session_state, and the assignment of switch_profile: _session_state
\* holds a new object; what referred to the old one still does
Replace(new_state) ==
  LET moved == Len(orphans) + 1
  IN Install(new_state,
             [c \in Conns |-> IF conns[c].pc # "receive" /\ conns[c].state_ref = 0
                              THEN [conns[c] EXCEPT !.state_ref = moved]
                              ELSE conns[c]],
             [k \in 1..Len(background_tasks) |->
                IF background_tasks[k].state_ref = 0
                THEN [background_tasks[k] EXCEPT !.state_ref = moved]
                ELSE background_tasks[k]],
             Append(orphans, SessionStateNow))

\* session.py: POST /api/session/reset
SessionReset(saved) ==
  /\ current_profile_id = None => ~saved
  /\ Replace(NewSessionState)
  /\ supabase' = SaveCurrentSession(NewSessionState, saved)
  /\ UNCHANGED <<gate, mock_mode, answered, current_profile_id, service_vars, call>>

\* session.py: POST /api/session/reset-hard
SessionResetHard(saved) ==
  /\ current_profile_id = None => ~saved
  /\ Replace(NewSessionState)
  /\ backboard' = NewBackboard
  /\ supabase' = SaveCurrentSession(NewSessionState, saved)
  /\ UNCHANGED <<gate, mock_mode, answered, current_profile_id, updates, call>>

\* SessionState(conversation_history=..., mastery_scores=..., level=..., turn=...)
LoadedSession(data) ==
  [NewSessionState EXCEPT !.conversation_history = data.conversation_history,
                          !.mastery_scores = data.mastery_scores,
                          !.level = data.level, !.turn = data.turn]

\* session.py: POST /api/session/switch-profile; saved and loaded are false
\* when save_session and load_session raise
SwitchProfile(profile_id, saved, loaded) ==
  /\ current_profile_id = None => ~saved
  /\ LET table == SaveCurrentSession(SessionStateNow, saved)
         data == table[profile_id]
     IN /\ supabase' = table
        /\ Replace(IF loaded /\ data # <<>> /\ data[1].conversation_history # <<>>
                   THEN LoadedSession(data[1]) ELSE NewSessionState)
  /\ current_profile_id' = profile_id
  /\ UNCHANGED <<gate, mock_mode, answered, service_vars, call>>

\* MOCK_MODE on, one client that sends its messages one at a time (the task
\* of a turn has run when the next message arrives), and the reset requests
MockInit == Started(TRUE)

MockNext ==
  \/ ReceiveInvalid(1)
  \/ \E message \in MockMessages : background_tasks = <<>> /\ Receive(1, message)
  \/ SttReturns(1, "words")
  \/ LlmReturns(1, FALSE, FALSE)
  \/ TtsDone(1, "browser")
  \/ BackgroundBackboard(1, 2)
  \/ SessionReset(FALSE)
  \/ SessionResetHard(FALSE)

MockSpec == MockInit /\ [][MockNext]_vars

\* MOCK_MODE off, the clients of Conns, and the reset and switch-profile
\* requests; Supabase answers every request that reaches it, Backboard none,
\* and the tasks of the turns have run when the next message arrives
WsInit == Started(FALSE)

WsNext ==
  \/ \E c \in Conns : ReceiveInvalid(c)
  \/ \E c \in Conns, message \in WsMessages :
       background_tasks = <<>> /\ Receive(c, message)
  \/ \E c \in Conns, malformed \in BOOLEAN :
       LlmReturns(c, malformed, current_profile_id # None /\ ~malformed)
  \/ \E c \in Conns, outcome \in {"audio", "raises"} : TtsDone(c, outcome)
  \/ \E k \in 1..Len(background_tasks) : BackgroundBackboard(k, 0)
  \/ SessionReset(current_profile_id # None)
  \/ SessionResetHard(current_profile_id # None)
  \/ \E profile_id \in Profiles, loaded \in BOOLEAN :
       SwitchProfile(profile_id, current_profile_id # None, loaded)

WsSpec == WsInit /\ [][WsNext]_vars

\* the audio messages a client sends with MOCK_MODE off; input is what the
\* recording says
AudioMessages ==
  {[type |-> "audio", input |-> i,
    is_opener |-> IF i = 0 THEN FALSE ELSE TurnInputs[i].is_opener] :
     i \in WsTurns \cup {0}}

\* MOCK_MODE off, one client that sends text and audio messages, the outcomes
\* of transcription, response validation, synthesis and Backboard update, and
\* the reset requests
TurnInit == Started(FALSE)

TurnNext ==
  \/ ReceiveInvalid(1)
  \/ \E message \in WsMessages \cup AudioMessages :
       background_tasks = <<>> /\ Receive(1, message)
  \/ \E outcome \in {"words", "silence", "raises"} : SttReturns(1, outcome)
  \/ \E malformed \in BOOLEAN : LlmReturns(1, malformed, FALSE)
  \/ \E outcome \in TtsOutcomes : TtsDone(1, outcome)
  \/ \E k \in 1..Len(background_tasks), done \in 0..2 : BackgroundBackboard(k, done)
  \/ SessionReset(FALSE)
  \/ SessionResetHard(FALSE)

TurnSpec == TurnInit /\ [][TurnNext]_vars


\* ------------------------------------------------------------------------
\* Properties of the scripted conversation
\* ------------------------------------------------------------------------
\* a step that leaves the session as it is
SessionUnchanged ==
  UNCHANGED <<turn, level, mastery_scores, conversation_history,
              mission_state, demo_complete>>

CarriesGateResult(t) ==
  LET resp == t.response
  IN /\ resp.user_vocabulary = Texts(AcceptedUnits(t))
     /\ RLe(R(0, 1), resp.quality_score) /\ RLe(resp.quality_score, R(1, 1))
     /\ resp.mission_progress =
          MissionProgress(MissionTasks(resp.quality_score, Len(AcceptedUnits(t)),
                                       t.turn_number))
     /\ resp.next_mission_hint =
          build_mission_hint(t.turn_number, resp.user_level_assessment)

\* a step that applies one whole turn to the session: the turn is appended
\* under the turn number of the session, and level, mastery scores, mission
\* state and turn counter are those after that turn
WholeTurn ==
  /\ Len(conversation_history') = Len(conversation_history) + 1
  /\ LET t == conversation_history'[Len(conversation_history')]
     IN /\ conversation_history' = Append(conversation_history, t)
        /\ t.turn_number = turn
        /\ turn' = turn + 1
        /\ level' = t.response.user_level_assessment
        /\ mastery_scores' = Updated(mastery_scores, t.response.mastery_scores, 1)
        /\ mission_state'.current_hint = t.response.next_mission_hint
        /\ mission_state'.done = t.response.mission_progress.done
        /\ mission_state'.total = t.response.mission_progress.total
        /\ mission_state'.percent = t.response.mission_progress.percent

\* a step of POST /api/session/reset, /reset-hard or /switch-profile
SessionReplaced ==
  \/ \E saved \in BOOLEAN : SessionReset(saved) \/ SessionResetHard(saved)
  \/ \E profile_id \in Profiles, saved \in BOOLEAN, loaded \in BOOLEAN :
       SwitchProfile(profile_id, saved, loaded)

\* C21: the commit at the end of a turn is atomic for concurrent readers: in
\* every state another request can read, each turn of the history carries its
\* validated units, quality score and mission progress, and every step that
\* changes history, level, mastery scores, mission state or turn counter
\* applies all the updates of one turn (or replaces the session).
C21_CommitIsAtomic ==
  /\ [](\A k \in 1..Len(conversation_history) :
          CarriesGateResult(conversation_history[k]))
  /\ [][\/ UNCHANGED <<turn, level, mastery_scores, conversation_history, mission_state>>
        \/ WholeTurn
        \/ SessionReplaced]_vars

\* a turn has been committed while the turn of another connection is in
\* flight: that turn, and any reader, sees the session after the whole commit
C21_Witness ==
  /\ conns[1].pc = "tts"
  /\ conns[2].pc = "llm"
  /\ conns[2].state_ref = 0
  /\ Len(conversation_history) >= 1

\* the sequence s is a prefix of the sequence t
IsPrefix(s, t) == Len(s) <= Len(t) /\ SubSeq(t, 1, Len(s)) = s

\* C22: the session history is append-only: in every step that is not a
\* session reset or a profile switch the history before the step is a prefix
\* of the history after it, so that between two such replacements the history
\* at an earlier time is a prefix of the history at any later time.
C22_HistoryAppendOnly ==
  [][IsPrefix(conversation_history, conversation_history') \/ SessionReplaced]_vars

\* two turns have been committed one after the other to the same session
C22_Witness ==
  /\ Len(conversation_history) = 2
  /\ conversation_history[1].turn_number = 1
  /\ conversation_history[2].turn_number = 2
  /\ \E c \in Conns : conns[c].pc = "tts" /\ conns[c].state_ref = 0

\* C23: a malformed candidate does not abort the turn: when the vocabulary
\* list of the LLM response holds an entry that is not a string, the entry is
\* coerced or skipped, the other candidates are validated and the turn is
\* committed to the history instead of ending with an error.
C23_MalformedCandidateSkipped ==
  [][\A c \in Conns :
       (conns[c].state_ref = 0 /\ LlmReturns(c, TRUE, FALSE))
         => /\ Len(conversation_history') = Len(conversation_history) + 1
            /\ conns'[c].pc = "tts"
            /\ answered' = answered]_vars

\* ------------------------------------------------------------------------
\* Properties of the messages of a turn
\* ------------------------------------------------------------------------
\* the kinds of the messages sent: the step of a status, the type of the others
KindsOf(replies) ==
  [k \in 1..Len(replies) |->
     IF replies[k].type = "status" THEN replies[k].step ELSE replies[k].type]

\* the kinds after the transcribing status that an audio message gets first
AfterTranscribing(kinds) ==
  IF kinds # <<>> /\ kinds[1] = "transcribing" THEN Tail(kinds) ELSE kinds

\* the messages of a turn that commits, in their order
TurnOrder == <<"thinking", "turn_response", "tts">>

\* C31: for every turn that commits the server sends a thinking status, then
\* exactly one turn_response, then exactly one tts message, in that order; the
\* tts message is sent even when the synthesis fails (then with the browser
\* mode), and never before the turn_response.
C31_ThinkingResponseTts ==
  /\ [](/\ \A c \in Conns :
             /\ IsPrefix(AfterTranscribing(KindsOf(conns[c].replies)), TurnOrder)
             /\ conns[c].pc = "tts"
                  => AfterTranscribing(KindsOf(conns[c].replies))
                       = <<"thinking", "turn_response">>
        /\ (\E k \in 1..Len(answered.replies) :
              answered.replies[k].type \in {"turn_response", "tts"})
             => AfterTranscribing(KindsOf(answered.replies)) = TurnOrder)
  /\ [][\A c \in Conns :
          /\ (conns[c].pc = "tts" /\ conns'[c].pc # "tts")
               => /\ answered'.conn = c
                  /\ AfterTranscribing(KindsOf(answered'.replies)) = TurnOrder
          /\ TtsDone(c, "raises")
               => answered'.replies[Len(answered'.replies)]
                    = [type |-> "tts", mode |-> "browser"]]_vars

\* a turn was committed, its synthesis failed, and its three messages were sent
C31_Witness ==
  /\ answered.conn # 0
  /\ KindsOf(answered.replies) = TurnOrder
  /\ answered.replies[3].mode = "browser"
  /\ \A c \in Conns : conns[c].pc = "receive"

\* a step of connection c in which the processing of a message fails before
\* the commit: the message is not valid, the text is empty, the transcription
\* is empty or raises, or the response of the LLM is refused
FailsBeforeCommit(c) ==
  \/ ReceiveInvalid(c)
  \/ \E message \in WsMessages :
       ~demo_complete /\ ~mock_mode /\ Content(message.input) = <<>> /\ Receive(c, message)
  \/ SttReturns(c, "silence")
  \/ SttReturns(c, "raises")
  \/ \E saved \in BOOLEAN : LlmReturns(c, TRUE, saved)

IsAcceptedByGate(key) ==
  /\ \E j \in 1..Len(gate.accepted) : gate.accepted[j].canonical_key = key
  /\ \A j \in 1..Len(gate.rejected) : gate.rejected[j].canonical_key # key

\* C33: every canonical unit of kind pattern or sentence is accepted by the
\* gate, whatever the utterance, the corrected form and the mission hint, with
\* a confidence of at least 0.82 and a mission relevance of at least 0.7.
C33_PatternsAndSentencesAccepted ==
  gate.called =>
    \A k \in 1..Len(gate.canonical_items) :
      gate.canonical_items[k].kind \in {"pattern", "sentence"} =>
        /\ IsAcceptedByGate(gate.canonical_items[k].canonical_key)
        /\ UnitAt(k).is_accepted
        /\ UnitAt(k).reject_reason = NoReason
        /\ RLe(Pct(82), UnitAt(k).confidence)
        /\ RLe(Pct(70), UnitAt(k).mission_relevance)

\* a sentence found neither in the utterance nor in the corrected form, none
\* of whose tokens is a keyword of the mission hint, was accepted
C33_Witness ==
  /\ gate.called
  /\ gate.user_text # <<>> /\ gate.corrected_form # <<>> /\ gate.mission_hint # <<>>
  /\ \E k \in 1..Len(gate.canonical_items) :
       /\ gate.canonical_items[k].kind = "sentence"
       /\ ~Contains(GateSourceText, gate.canonical_items[k].text)
       /\ ~Contains(GateCorrectedText, gate.canonical_items[k].text)
       /\ TokenSet(gate.canonical_items[k].text) \cap mission_keywords(gate.mission_hint) = {}
       /\ IsAcceptedByGate(gate.canonical_items[k].canonical_key)
       /\ UnitAt(k).mission_relevance = Pct(70)
       /\ UnitAt(k).confidence = Pct(90)

\* the unit at position k comes to the off-mission rule of line 352: none of
\* the rules before it rejects it
ReachesOffMissionRule(k) == \A r \in 1..6 : ~RuleHolds(r, k)

OffMissionConfidences == {Pct(75), Pct(82), Pct(85), Pct(90)}

\* C34: no unit is rejected as off_mission: the confidence of a unit that
\* comes to the off-mission rule is one of 0.75, 0.82, 0.85 and 0.9, never
\* below 0.72.
C34_OffMissionUnreachable ==
  gate.called =>
    /\ \A j \in 1..Len(GateUnits) : GateUnits[j].reject_reason # "off_mission"
    /\ \A k \in 1..Len(gate.canonical_items) :
         ReachesOffMissionRule(k) =>
           /\ UnitAt(k).confidence \in OffMissionConfidences
           /\ ~RLt(UnitAt(k).confidence, Pct(72))
           /\ ~RuleHolds(7, k)

\* a word of confidence 0.75 that shares no token with the keywords of the
\* mission hint came to the off-mission rule and was accepted
C34_Witness ==
  /\ gate.called
  /\ mission_keywords(gate.mission_hint) # {}
  /\ \E k \in 1..Len(gate.canonical_items) :
       /\ gate.canonical_items[k].kind = "word"
       /\ ReachesOffMissionRule(k)
       /\ UnitAt(k).confidence = Pct(75)
       /\ RLt(UnitAt(k).mission_relevance, Pct(50))
       /\ IsAcceptedByGate(gate.canonical_items[k].canonical_key)

\* C35: no unit is rejected as too_broad: a chunk has at most two tokens,
\* since a candidate with a space and three tokens or more is a sentence.
C35_TooBroadUnreachable ==
  gate.called =>
    /\ \A j \in 1..Len(GateUnits) : GateUnits[j].reject_reason # "too_broad"
    /\ \A k \in 1..Len(gate.canonical_items) :
         gate.canonical_items[k].kind = "chunk" =>
           /\ Len(tokenize(gate.canonical_items[k].text)) <= 2
           /\ Cardinality(TokenSet(gate.canonical_items[k].text)) <= 2
           /\ ~RuleHolds(2, k)

\* the gate was called with a candidate of ten tokens, taken as a sentence,
\* and with a chunk of two tokens, which came to the too_broad rule
C35_Witness ==
  /\ gate.called
  /\ \E k \in 1..Len(gate.canonical_items) :
       /\ gate.canonical_items[k].kind = "sentence"
       /\ Cardinality(TokenSet(gate.canonical_items[k].text)) >= 10
  /\ \E k \in 1..Len(gate.canonical_items) :
       /\ gate.canonical_items[k].kind = "chunk"
       /\ Cardinality(TokenSet(gate.canonical_items[k].text)) = 2
       /\ ~RuleHolds(1, k)

\* ------------------------------------------------------------------------
\* the links of the shared canonical key
\* ------------------------------------------------------------------------
NoLinks == [links |-> <<>>, seen |-> {}]

\* the links of strategy 1 for the history of the session
ExplicitLinks == Strategy1(NoLinks, NodeIds(conversation_history, 1), conversation_history, 1)

\* C36: for a history whose validated units come from the gate, the strategy
\* of the shared canonical key adds no link: a turn holds at most one accepted
\* unit per canonical_key, so no group has two texts, and every link comes
\* from a link the tutor declared or from the mission pairing.
C36_SharedKeyAddsNoLink ==
  LET history == conversation_history
      node_ids == NodeIds(history, 1)
  IN /\ \A n \in 1..Len(history) :
          \A i, j \in 1..Len(AcceptedUnits(history[n])) :
            AcceptedUnits(history[n])[i].canonical_key = AcceptedUnits(history[n])[j].canonical_key
              => i = j
     /\ Strategy2(NoLinks, node_ids, history, 1) = NoLinks
     /\ Strategy2(ExplicitLinks, node_ids, history, 1) = ExplicitLinks
     /\ MergedLinks(history) = Strategy3(ExplicitLinks, node_ids, history, 1).links

\* a turn of the history holds two accepted units that are two nodes of the
\* graph, and the graph has a link
C36_Witness ==
  /\ MergedLinks(conversation_history) # <<>>
  /\ \E n \in 1..Len(conversation_history) :
       \E i, j \in 1..Len(AcceptedUnits(conversation_history[n])) :
         LET units == AcceptedUnits(conversation_history[n])
         IN /\ i # j
            /\ to_id(units[i].text) # to_id(units[j].text)
            /\ {to_id(units[i].text), to_id(units[j].text)} \subseteq NodeIds(conversation_history, 1)
            /\ ~\E k \in 1..Len(MergedLinks(conversation_history)) :
                 {MergedLinks(conversation_history)[k].source, MergedLinks(conversation_history)[k].target}
                   = {to_id(units[i].text), to_id(units[j].text)}

\* ------------------------------------------------------------------------
\* accepted units of six words or more
\* ------------------------------------------------------------------------
\* a unit whose normalized text has six space-separated words or more and
\* starts with none of "je suis +", "j'aime +" and "j'ai envie de +"
IsLongUnit(u) ==
  /\ Cardinality({i \in 1..Len(norm_text(u.text)) : norm_text(u.text)[i] = " "}) >= 5
  /\ \A pre \in ExemptPrefixes : ~StartsWith(norm_text(u.text), pre)

\* the accepted units of the turns of the history
AcceptedOfHistory ==
  UNION {{AcceptedUnits(conversation_history[n])[m] :
            m \in 1..Len(AcceptedUnits(conversation_history[n]))} :
         n \in 1..Len(conversation_history)}

\* C37: an accepted unit whose normalized text has six space-separated words
\* or more, and none of the three exempt prefixes, is no node of the graph
\* and no end of a link: no node carries its text, and its id is the id of a
\* node or the end of a link only when a shorter accepted unit has that id.
C37_LongUnitsAreNoNodes ==
  \A n \in 1..Len(conversation_history) :
    \A m \in 1..Len(AcceptedUnits(conversation_history[n])) :
      LET units == AcceptedUnits(conversation_history[n])
          kept == pedagogical_items(Texts(units))
      IN IsLongUnit(units[m]) =>
           /\ \A k \in 1..Len(kept) : norm_text(kept[k]) # norm_text(units[m].text)
           /\ \A k \in 1..Len(SessionNodes) : SessionNodes[k].label # units[m].text
           /\ to_id(units[m].text) \in NodeIdSet(SessionNodes) \cup NodeIds(conversation_history, 1) \cup LinkEnds(SessionLinks)
                => \E v \in AcceptedOfHistory :
                     /\ to_id(v.text) = to_id(units[m].text)
                     /\ ~IsLongUnit(v)

\* the gate accepted a sentence of six words, the tutor declared a link from
\* it to a word of another turn, the word is a node, and neither the node of
\* the sentence nor the link is in the graph
C37_Witness ==
  \E v \in AcceptedOfHistory, entry \in Declared :
    /\ IsLongUnit(v)
    /\ v.is_accepted
    /\ entry.source = v.text
    /\ to_id(entry.target) \in NodeIdSet(SessionNodes)
    /\ to_id(v.text) \notin NodeIdSet(SessionNodes) \cup LinkEnds(SessionLinks)

\* ------------------------------------------------------------------------
\* the mission hint of a turn
\* ------------------------------------------------------------------------
\* the hints of the mission at a position of the list, one per prefix
HintsOfMission(position) ==
  {prefix \o <<":"," ">> \o missions[position] :
     prefix \in {<<"M","i","s","s","i","o","n"," ","A","1","-","A","2">>,
                 <<"M","i","s","s","i","o","n"," ","A","2","+">>}}

\* the position in the list of the mission turn n is validated against
HintPosition(n) == IF n <= 1 THEN 1 ELSE SeqMin(n - 1, Len(missions))

\* C38: the mission hint of the gate lags one turn: the hint stored when turn
\* N commits is built from the turn number N, turns 1 and 2 are validated
\* against the first mission, and turn N >= 2 against the mission at position
\* min(N-1, 5) of the list. The hint of the session is the one its next turn,
\* of number turn, is validated against.
C38_HintLagsOneTurn ==
  /\ \A n \in 1..Len(conversation_history) :
       conversation_history[n].response.next_mission_hint
         \in HintsOfMission(SeqMin(conversation_history[n].turn_number, Len(missions)))
  /\ mission_state.current_hint \in HintsOfMission(HintPosition(turn))

\* ------------------------------------------------------------------------
\* turn numbers and resets under concurrent turns
\* ------------------------------------------------------------------------
\* the SessionState objects: the one _session_state holds and the replaced ones
SessionObjects == {SessionStateNow} \cup {orphans[r] : r \in 1..Len(orphans)}

\* the turn numbers of a session go up by one from turn to turn, and its turn
\* counter is one more than the number of its last turn
NumberedInOrder(state) ==
  LET history == state.conversation_history
  IN /\ \A n \in 1..(Len(history) - 1) :
          history[n + 1].turn_number = history[n].turn_number + 1
     /\ \A n, m \in 1..Len(history) :
          history[n].turn_number = history[m].turn_number => n = m
     /\ history # <<>> => state.turn = history[Len(history)].turn_number + 1
     /\ history = <<>> => state.turn = 1

\* C39: under any interleaving of the turns processed concurrently on a
\* session, the turn numbers of its history go up by exactly one in the order
\* of the appends, its turn counter is the last committed turn number plus
\* one, and no two committed turns have the same number.
C39_TurnNumbersConsecutive == \A state \in SessionObjects : NumberedInOrder(state)

\* two connections read the same turn counter, both waited for the LLM, and
\* both turns were committed to the session
C39_Witness ==
  /\ conns[1].pc = "tts" /\ conns[2].pc = "tts"
  /\ conns[1].state_ref = 0 /\ conns[2].state_ref = 0
  /\ conns[1].turn_index = conns[2].turn_index
  /\ Len(conversation_history) = conns[1].turn_index + 2
  /\ conversation_history[Len(conversation_history)].turn_number = turn - 1
  /\ conversation_history[Len(conversation_history) - 1].turn_number = turn - 2

\* the session a reset installs: no history, turn 1, level A1, no mastery score
IsFreshSession ==
  /\ conversation_history = <<>>
  /\ turn = 1
  /\ level = <<"A","1">>
  /\ mastery_scores = <<>>

\* C40: a turn that started before a reset and commits after it does not leak
\* into the new session: its commit leaves the session as it is, and a session
\* with no history, turn 1, level A1 and no mastery score stays so until a
\* turn that started on it commits (or the session is replaced again).
C40_NoLeakAcrossReset ==
  [][/\ \A c \in Conns :
          (/\ conns[c].state_ref # 0
           /\ conns[c].pc = "llm"
           /\ conns'[c].pc # "llm")
            => SessionUnchanged
     /\ (IsFreshSession /\ ~IsFreshSession')
          => \/ \E c \in Conns :
                  /\ conns[c].state_ref = 0
                  /\ conns[c].pc = "llm"
                  /\ conns'[c].pc = "tts"
                  /\ WholeTurn
             \/ SessionReplaced]_vars

\* a turn was committed to a replaced session object by a connection that
\* has not yet sent its tts message, and the session is the one of the reset
C40_Witness ==
  /\ IsFreshSession
  /\ mission_state = InitialMissionState
  /\ \E c \in Conns :
       /\ conns[c].pc = "tts"
       /\ conns[c].state_ref # 0
       /\ Len(orphans[conns[c].state_ref].conversation_history) = conns[c].turn_index + 1
       /\ orphans[conns[c].state_ref].turn = conns[c].turn_index + 2

====
